---- MODULE Spec2Model ----
(***************************************************************************)
(* A state-machine model of the fgb_emu Game Boy emulator core             *)
(* (native/gb_emu).  One module, several specifications, one per           *)
(* subsystem: the CPU step (SpecCpu), the timer (SpecTimer), the pixel     *)
(* pipeline (SpecPpu), the memory-map unit with its VRAM DMA (SpecMmu),    *)
(* the emulator run loop with its control flags (SpecEmu, FairSpecEmu),    *)
(* the window frame queue (SpecWin), the work RAM and OAM DMA on the bus   *)
(* (SpecBus), the cartridge and its bank controllers (SpecCart), the       *)
(* colour palette window (SpecPal), the joypad (SpecJoy), the CPU's        *)
(* conditional branches and STOP (SpecCtl), its decimal adjust (SpecBcd),  *)
(* the audio unit (SpecApu), the accesses the bus ignores (SpecQuiet), the *)
(* MBC3 real-time clock (SpecRtc), concurrent run requests (SpecRun), the  *)
(* renderer's tile lookup (SpecTile), its list of drawn sprites            *)
(* (SpecSprite) and the noise channel (SpecNoise).                         *)
(***************************************************************************)
EXTENDS Integers, Sequences, FiniteSets, TLC

VARIABLES
    cpu,        \* Cpu: registers a f b c sp pc, halted, ei            (cpu.rs)
    hram,       \* the bytes of high RAM the stack lives in            (hram.rs)
    intf,       \* Intf.data, the interrupt request register 0xff0f    (intf.rs)
    inte,       \* MMUnit.inte, the interrupt enable register 0xffff   (mmunit.rs)
    timer,      \* Timer: div, div_clock, tima, tma, tac, timer_clock  (timer.rs)
    gpu,        \* GPU: lcdc, lcds, ly, lyc, dots, scroll, window      (gpu.rs)
    dma,        \* DMA: src, dst, active, mode, remain                 (dma.rs)
    speed,      \* Speed: mode, prepare_switch                         (speed.rs)
    emu,        \* Emulator flags and the run loop's position          (emulator.rs)
    win,        \* WindowBuffer queues, lock, producer and consumer    (window.rs)
    dev,        \* WRAM, OAM, colour palette and Joypad of the MMUnit   (mmunit.rs)
    cart,       \* the cartridge: ROM header, mapper registers, RAM     (cartridge.rs)
    apu,        \* MMUnit.apu: registers, wave table, noise, queue     (apu.rs)
    last,       \* history: the operation the last step performed
    steps,      \* history: number of steps taken (bounds the CPU/MMU runs)
    panicked    \* the emulation thread has aborted (panic!/unreachable!/assert!)

vars == <<cpu, hram, intf, inte, timer, gpu, dma, speed, emu, win, dev, cart, apu, last, steps,
          panicked>>

(***************************************************************************)
(* Bit arithmetic on bytes and words                                       *)
(***************************************************************************)
Bit(x, n) == (x \div (2 ^ n)) % 2

And8(x, y) ==
    Bit(x, 0) * Bit(y, 0) + 2 * Bit(x, 1) * Bit(y, 1) + 4 * Bit(x, 2) * Bit(y, 2)
    + 8 * Bit(x, 3) * Bit(y, 3) + 16 * Bit(x, 4) * Bit(y, 4) + 32 * Bit(x, 5) * Bit(y, 5)
    + 64 * Bit(x, 6) * Bit(y, 6) + 128 * Bit(x, 7) * Bit(y, 7)

Or8(x, y) == x + y - And8(x, y)

Not8(x) == 255 - x

\* u8::trailing_zeros
TrailingZeros(x) ==
    IF x % 256 = 0 THEN 8
    ELSE CHOOSE n \in 0..7 : Bit(x, n) = 1 /\ \A m \in 0..(n - 1) : Bit(x, m) = 0

Lo(v) == v % 256

Hi8(v) == (v \div 256) % 256

\* the record kept in `last`: the operation, its address and value arguments, the
\* clock ticks it was given or reported, and what it returned or did (r)
OpR(name, a, v, c, r) == [op |-> name, a |-> a, v |-> v, c |-> c, r |-> r]

Op(name, a, v, c) == OpR(name, a, v, c, <<>>)

NoOp == Op("none", 0, 0, 0)

(***************************************************************************)
(* Bounds of the model                                                     *)
(***************************************************************************)
\* number of CPU steps explored from power-up
MaxCpuSteps == 5

\* number of 16-bit words of stack (high RAM below 0xfffe) that are modelled
MaxStackDepth == 2

(***************************************************************************)
(* CPU (core/cpu.rs, core/register.rs), seen through the memory bus        *)
(***************************************************************************)
FlagZ == 128

FlagN == 64

FlagH == 32

FlagC == 16

\* Register::power_up: sp = 0xfffe
StackTop == 65534

\* the part of high RAM the model keeps: the stack below StackTop and the byte at it
HramWindow == (StackTop - 2 * MaxStackDepth)..StackTop

\* the bus as the CPU step sees it
World == [cpu |-> cpu, hram |-> hram, intf |-> intf, inte |-> inte]

\* MMUnit::get restricted to the interrupt registers and the stack window
MemGet(w, a) ==
    CASE a = 65295 -> w.intf
      [] a = 65535 -> w.inte
      [] a \in HramWindow -> w.hram[a]
      [] OTHER -> 0

\* MMUnit::set restricted to the interrupt registers and the stack window
MemSet(w, a, v) ==
    CASE a = 65295 -> [w EXCEPT !.intf = v]
      [] a = 65535 -> [w EXCEPT !.inte = v]
      [] a \in HramWindow -> [w EXCEPT !.hram[a] = v]
      [] OTHER -> w

\* Memory::get_word: little endian, two byte reads
MemGetWord(w, a) == MemGet(w, a) + 256 * MemGet(w, a + 1)

\* Memory::set_word: low byte at a, high byte at a + 1
MemSetWord(w, a, v) == MemSet(MemSet(w, a, Lo(v)), a + 1, Hi8(v))

\* Cpu::stack_push
StackPush(w, v) ==
    LET w1 == [w EXCEPT !.cpu.sp = w.cpu.sp - 2]
    IN  MemSetWord(w1, w1.cpu.sp, v)

\* Cpu::stack_pop: the word read and the world with sp moved
StackPop(w) == [v |-> MemGetWord(w, w.cpu.sp), w |-> [w EXCEPT !.cpu.sp = w.cpu.sp + 2]]

\* Register::get_af
GetAf(r) == r.a * 256 + r.f

\* Register::get_bc
GetBc(r) == r.b * 256 + r.c

\* a set_af that forgets the mask of the low nibble of F
SetAfNoMask(r, v) == [r EXCEPT !.a = Hi8(v), !.f = Lo(v)]

\* Register::set_af: the low nibble of F is masked
SetAf(r, v) == [r EXCEPT !.a = Hi8(v), !.f = And8(Lo(v), 240)]

\* Register::set_bc
SetBc(r, v) == [r EXCEPT !.b = Hi8(v), !.c = Lo(v)]

\* Register::set_flag
SetFlag(r, flag, v) ==
    IF v THEN [r EXCEPT !.f = Or8(r.f, flag)] ELSE [r EXCEPT !.f = And8(r.f, Not8(flag))]

Xor8(x, y) == x + y - 2 * And8(x, y)

\* Cpu::is_half_carry
IsHalfCarry(a, b, r) == And8(Xor8(Xor8(a, b), r), 16) > 0

\* Cpu::is_carry
IsCarry(a, b, carry) == a + b + carry > 255

\* Cpu::add (ADD A,v)
Add(r, v) ==
    LET o  == r.a
        rs == (o + v) % 256
        r1 == SetFlag(r, FlagZ, rs = 0)
        r2 == SetFlag(r1, FlagN, FALSE)
        r3 == SetFlag(r2, FlagH, IsHalfCarry(o, v, rs))
        r4 == SetFlag(r3, FlagC, IsCarry(o, v, 0))
    IN  [r4 EXCEPT !.a = rs]

\* a daa that leaves out the `if a > 0x99` correction of the high digit
DaaNoHighFix(r) ==
    LET c    == And8(r.f, FlagC) # 0
        h    == And8(r.f, FlagH) # 0
        adj0 == Or8(IF c THEN 96 ELSE 0, IF h THEN 6 ELSE 0)
        adj  == IF And8(r.f, FlagN) # 0 THEN adj0
                ELSE Or8(adj0, IF And8(r.a, 15) > 9 THEN 6 ELSE 0)
        a    == IF And8(r.f, FlagN) # 0 THEN (r.a + 256 - adj) % 256 ELSE (r.a + adj) % 256
        r1   == SetFlag(r, FlagC, adj >= 96)
        r2   == SetFlag(r1, FlagH, FALSE)
        r3   == SetFlag(r2, FlagZ, a = 0)
    IN  [r3 EXCEPT !.a = a]

\* Cpu::daa
Daa(r) ==
    LET c    == And8(r.f, FlagC) # 0
        h    == And8(r.f, FlagH) # 0
        adj0 == Or8(IF c THEN 96 ELSE 0, IF h THEN 6 ELSE 0)
        adj  == IF And8(r.f, FlagN) # 0 THEN adj0
                ELSE Or8(Or8(adj0, IF And8(r.a, 15) > 9 THEN 6 ELSE 0),
                         IF r.a > 153 THEN 96 ELSE 0)
        a    == IF And8(r.f, FlagN) # 0 THEN (r.a + 256 - adj) % 256 ELSE (r.a + adj) % 256
        r1   == SetFlag(r, FlagC, adj >= 96)
        r2   == SetFlag(r1, FlagH, FALSE)
        r3   == SetFlag(r2, FlagZ, a = 0)
    IN  [r3 EXCEPT !.a = a]

\* Cpu::ccf
Ccf(r) ==
    SetFlag(SetFlag(SetFlag(r, FlagN, FALSE), FlagH, FALSE), FlagC, And8(r.f, FlagC) = 0)

\* the conditional opcodes of Cpu::ex: JP cc,a16 / JR cc,r8 / CALL cc,a16 / RET cc
JpIfOpcodes == {194, 202, 210, 218}

JrIfOpcodes == {32, 40, 48, 56}

CallIfOpcodes == {196, 204, 212, 220}

RetIfOpcodes == {192, 200, 208, 216}

\* the condition Cpu::ex passes to jp_if, jr_if, call_if and ret_if: NZ, Z, NC, C
JumpCond(op, r) ==
    CASE op \in {194, 32, 196, 192} -> And8(r.f, FlagZ) = 0
      [] op \in {202, 40, 204, 200} -> And8(r.f, FlagZ) # 0
      [] op \in {210, 48, 212, 208} -> And8(r.f, FlagC) = 0
      [] op \in {218, 56, 220, 216} -> And8(r.f, FlagC) # 0

\* extra_cycles of Cpu::ex: every `if` that sets it tests Flag::Z, negated for
\* the NZ and the NC opcodes
ExtraCycles(op, r) ==
    LET z   == And8(r.f, FlagZ) # 0
        on  == IF op \in {194, 210, 32, 48, 196, 212, 192, 208} THEN ~z ELSE z
    IN  IF op \in JpIfOpcodes \cup JrIfOpcodes THEN (IF on THEN 1 ELSE 0)
        ELSE IF op \in CallIfOpcodes \cup RetIfOpcodes THEN (IF on THEN 3 ELSE 0)
        ELSE 0

\* OP_CYCLES, for the opcodes of the model (machine cycles)
OpCycles(op) ==
    CASE op = 0   -> 1   \* NOP
      [] op = 1   -> 3   \* LD BC,d16
      [] op = 16  -> 0   \* STOP
      [] op \in JrIfOpcodes -> 2
      [] op = 39  -> 1   \* DAA
      [] op = 63  -> 1   \* CCF
      [] op = 62  -> 2   \* LD A,d8
      [] op = 118 -> 0   \* HALT
      [] op \in RetIfOpcodes -> 2
      [] op \in JpIfOpcodes -> 3
      [] op \in CallIfOpcodes -> 3
      [] op = 197 -> 4   \* PUSH BC
      [] op = 198 -> 2   \* ADD A,d8
      [] op = 217 -> 4   \* RETI
      [] op = 224 -> 3   \* LDH (a8),A
      [] op = 241 -> 3   \* POP AF
      [] op = 243 -> 1   \* DI
      [] op = 245 -> 4   \* PUSH AF
      [] op = 251 -> 1   \* EI

\* the opcodes that touch the interrupt machinery: NOP, LD A,d8, HALT, RETI,
\* LDH (a8),A, DI, EI
IntOpcodes == {0, 62, 118, 217, 224, 243, 251}

\* the opcodes that move data through the flag register: LD BC,d16, PUSH BC,
\* ADD A,d8, POP AF, PUSH AF
AluOpcodes == {1, 197, 198, 241, 245}

\* the immediates a ROM may hold after the opcode
Imm8 == {2, 255}

Imm16 == {4863}

\* an interrupt dispatch that leaves a halted CPU halted when IME is clear
HiNoWake(w) ==
    IF ~w.cpu.halted /\ ~w.cpu.ei THEN [w |-> w, c |-> 0]
    ELSE LET f  == MemGet(w, 65295)
             e  == MemGet(w, 65535)
             ii == And8(e, f)
         IN  IF ii = 0 THEN [w |-> w, c |-> 0]
             ELSE IF ~w.cpu.ei THEN [w |-> w, c |-> 0]
                  ELSE LET w1 == [w EXCEPT !.cpu.halted = FALSE]
                           n  == TrailingZeros(f)
                           w2 == [w1 EXCEPT !.cpu.ei = FALSE]
                           w3 == MemSet(w2, 65295, And8(f, Not8(2 ^ n)))
                           w4 == StackPush(w3, w3.cpu.pc)
                       IN  [w |-> [w4 EXCEPT !.cpu.pc = 64 + 8 * n], c |-> 4]

\* Cpu::hi: the interrupt dispatch; c is the machine cycles it reports (0: none taken)
Hi(w) ==
    IF ~w.cpu.halted /\ ~w.cpu.ei THEN [w |-> w, c |-> 0]
    ELSE LET f  == MemGet(w, 65295)
             e  == MemGet(w, 65535)
             ii == And8(e, f)
         IN  IF ii = 0 THEN [w |-> w, c |-> 0]
             ELSE LET w1 == [w EXCEPT !.cpu.halted = FALSE]
                  IN  IF ~w.cpu.ei THEN [w |-> w1, c |-> 0]
                      ELSE LET n  == TrailingZeros(f)
                               w2 == [w1 EXCEPT !.cpu.ei = FALSE]
                               w3 == MemSet(w2, 65295, And8(f, Not8(2 ^ n)))
                               w4 == StackPush(w3, w3.cpu.pc)
                           IN  [w |-> [w4 EXCEPT !.cpu.pc = 64 + 8 * n], c |-> 4]

\* Cpu::ex for the opcodes of the model: op is the byte fetched at pc, i8 and i16
\* the immediate that follows it
Ex(w, op, i8, i16) ==
    LET w0 == [w EXCEPT !.cpu.pc = w.cpu.pc + 1]
        n1 == [w0 EXCEPT !.cpu.pc = w0.cpu.pc + 1]
        n2 == [w0 EXCEPT !.cpu.pc = w0.cpu.pc + 2]
        wr ==
          CASE op = 0   -> w0
            [] op = 1   -> [n2 EXCEPT !.cpu = SetBc(n2.cpu, i16)]
            [] op = 16  -> w0
            [] op = 39  -> [w0 EXCEPT !.cpu = Daa(w0.cpu)]
            [] op = 63  -> [w0 EXCEPT !.cpu = Ccf(w0.cpu)]
            [] op \in JpIfOpcodes ->
                 IF JumpCond(op, w.cpu) THEN [n2 EXCEPT !.cpu.pc = i16] ELSE n2
            [] op \in JrIfOpcodes ->
                 IF JumpCond(op, w.cpu)
                 THEN [n1 EXCEPT !.cpu.pc =
                          (n1.cpu.pc + 65536 + (IF i8 >= 128 THEN i8 - 256 ELSE i8)) % 65536]
                 ELSE n1
            [] op \in CallIfOpcodes ->
                 IF JumpCond(op, w.cpu)
                 THEN [StackPush(n2, n2.cpu.pc) EXCEPT !.cpu.pc = i16]
                 ELSE n2
            [] op \in RetIfOpcodes ->
                 IF JumpCond(op, w.cpu)
                 THEN LET p == StackPop(w0) IN [p.w EXCEPT !.cpu.pc = p.v]
                 ELSE w0
            [] op = 62  -> [n1 EXCEPT !.cpu.a = i8]
            [] op = 118 -> [w0 EXCEPT !.cpu.halted = TRUE]
            [] op = 197 -> StackPush(w0, GetBc(w0.cpu))
            [] op = 198 -> [n1 EXCEPT !.cpu = Add(n1.cpu, i8)]
            [] op = 217 -> LET p == StackPop(w0) IN [p.w EXCEPT !.cpu.pc = p.v, !.cpu.ei = TRUE]
            [] op = 224 -> MemSet(n1, 65280 + i8, n1.cpu.a)
            [] op = 241 -> LET p == StackPop(w0) IN [p.w EXCEPT !.cpu = SetAf(p.w.cpu, p.v)]
            [] op = 243 -> [w0 EXCEPT !.cpu.ei = FALSE]
            [] op = 245 -> StackPush(w0, GetAf(w0.cpu))
            [] op = 251 -> [w0 EXCEPT !.cpu.ei = TRUE]
    IN  [w |-> wr, c |-> OpCycles(op) + ExtraCycles(op, wr.cpu)]

\* what Cpu::next does with the world: kind is "int" (interrupt serviced), "halt"
\* (idle) or "ex" (an opcode executed); c is in machine cycles
CpuStep(w, op, i8, i16) ==
    LET h == Hi(w)
    IN  IF h.c # 0 THEN [w |-> h.w, c |-> h.c, kind |-> "int"]
        ELSE IF h.w.cpu.halted THEN [w |-> h.w, c |-> OpCycles(0), kind |-> "halt"]
        ELSE LET x == Ex(h.w, op, i8, i16) IN [w |-> x.w, c |-> x.c, kind |-> "ex"]

\* the stack accesses of the step stay in the modelled window, and pc does not overflow
CpuInBounds(w, r, op) ==
    /\ w.cpu.pc <= 65532
    /\ r.w.cpu.sp \in HramWindow
    /\ r.w.cpu.sp <= StackTop

CpuKinds == {"int", "halt", "ex"}

\* Cpu::next: one step of the CPU, reporting clock ticks (4 per machine cycle); the
\* byte at pc is one of ops and the byte after it one of imms.  The step is
\* recorded with the operand of an ADD A,d8 and with the halted flag and the
\* accumulator it started from.
CpuNextWith(ops, imms, bound) ==
    /\ ~panicked
    /\ steps < bound
    /\ \E op \in ops, i8 \in imms, i16 \in Imm16 :
         LET r == CpuStep(World, op, i8, i16)
         IN  /\ CpuInBounds(World, r, op)
             /\ cpu' = r.w.cpu
             /\ hram' = r.w.hram
             /\ intf' = r.w.intf
             /\ inte' = r.w.inte
             /\ last' = OpR(r.kind, IF r.kind = "ex" THEN op ELSE 0,
                            IF r.kind = "ex" /\ op = 198 THEN i8 ELSE 0, r.c * 4,
                            [halted |-> cpu.halted, a |-> cpu.a])
    /\ steps' = steps + 1
    /\ UNCHANGED <<apu, timer, gpu, dma, speed, emu, win, panicked, dev, cart>>

CpuNextOn(ops) == CpuNextWith(ops, Imm8, MaxCpuSteps)

CpuNext == CpuNextOn(IntOpcodes)

CpuNextAlu == CpuNextOn(AluOpcodes)

\* the opcodes that steer control: the conditional JP, JR, CALL and RET, STOP,
\* and the CCF and ADD A,d8 that bring the flags Z and C into every state
CtlOpcodes == JpIfOpcodes \cup JrIfOpcodes \cup CallIfOpcodes \cup RetIfOpcodes \cup {16, 63, 198}

\* number of CPU steps explored when the control opcodes are fed
MaxCtlSteps == 4

CpuNextCtl == CpuNextWith(CtlOpcodes, Imm8, MaxCtlSteps)

\* the bytes that hold two decimal digits
BcdBytes == {16 * hi + lo : hi \in 0 .. 9, lo \in 0 .. 9}

\* Cpu::next on a ROM that holds LD A,d8 / ADD A,d8 / DAA / NOP at the entry
\* point 0x0100, for every pair of decimal operands
CpuNextBcd ==
    /\ cpu.pc \in {256, 258, 260}
    /\ CpuNextWith({CASE cpu.pc = 256 -> 62 [] cpu.pc = 258 -> 198 [] OTHER -> 39},
                   IF cpu.pc = 260 THEN {0} ELSE BcdBytes, MaxCpuSteps)

\* the requests raised: VBlank, LCDStat, Timer
IntFlags == 0..2

\* Intf::hi, called by a peripheral (PPU, timer, joypad) between two CPU steps
RaiseInt ==
    /\ ~panicked
    /\ steps < MaxCpuSteps
    /\ \E flag \in IntFlags :
         /\ intf' = Or8(intf, 2 ^ flag)
         /\ last' = Op("hi", flag, 0, 0)
    /\ steps' = steps + 1
    /\ UNCHANGED <<apu, cpu, hram, inte, timer, gpu, dma, speed, emu, win, panicked, dev, cart>>

\* Register::power_up, for the terminal kinds a cartridge selects (GB: 0x01, GBC: 0x11)
RegPowerUp == {[a |-> a, f |-> 176, b |-> 0, c |-> 19, sp |-> StackTop, pc |-> 256,
                halted |-> FALSE, ei |-> TRUE] : a \in {1, 17}}

(***************************************************************************)
(* Timer (core/timer.rs) and its prescaler (core/clock.rs)                 *)
(***************************************************************************)
\* number of timer operations explored from power-up
MaxTimerSteps == 5

\* Timer::power_up: div_clock period = CPU_FREQ / (16 * 1024)
DivPeriod == 256

\* Clock::next: the new ticks and the remainder kept
ClockNext(period, n, cycles) == [rs |-> (n + cycles) \div period, n |-> (n + cycles) % period]

\* Timer::power_up
TimerPowerUp == [div |-> 0, div_n |-> 0, tima |-> 0, tma |-> 0, tac |-> 0,
                 period |-> 1024, n |-> 0]

\* a TIMA loop that wraps to zero on overflow instead of reloading from TMA
TimaLoopNoReload(t, f, k) == [t |-> [t EXCEPT !.tima = (t.tima + k) % 256],
                              intf |-> IF t.tima + k > 255 THEN Or8(f, 4) ELSE f]

\* the loop of Timer::next: k increments of TIMA, each overflow reloads TMA and
\* calls Intf::hi(Timer)
RECURSIVE TimaLoop(_, _, _)
TimaLoop(t, f, k) ==
    IF k = 0 THEN [t |-> t, intf |-> f]
    ELSE LET inc == (t.tima + 1) % 256
         IN  IF inc = 0
             THEN TimaLoop([t EXCEPT !.tima = t.tma], Or8(f, 2 ^ 2), k - 1)
             ELSE TimaLoop([t EXCEPT !.tima = inc], f, k - 1)

\* Timer::next
TimerNextOp(t, f, cycles) ==
    LET dc == ClockNext(DivPeriod, t.div_n, cycles)
        t1 == [t EXCEPT !.div = (t.div + (dc.rs % 256)) % 256, !.div_n = dc.n]
    IN  IF And8(t.tac, 4) = 0 THEN [t |-> t1, intf |-> f]
        ELSE LET tc == ClockNext(t1.period, t1.n, cycles)
             IN  TimaLoop([t1 EXCEPT !.n = tc.n], f, tc.rs)

\* the period a TAC value selects
TacPeriod(v) ==
    CASE v % 4 = 0 -> 1024
      [] v % 4 = 1 -> 16
      [] v % 4 = 2 -> 64
      [] v % 4 = 3 -> 256

\* Timer::set
TimerSetOp(t, a, v) ==
    CASE a = 65284 -> [t EXCEPT !.div = 0, !.div_n = 0]
      [] a = 65285 -> [t EXCEPT !.tima = v]
      [] a = 65286 -> [t EXCEPT !.tma = v]
      [] a = 65287 ->
           IF t.tac % 4 # v % 4
           THEN [t EXCEPT !.period = TacPeriod(v), !.n = 0, !.tima = t.tma, !.tac = v]
           ELSE [t EXCEPT !.tac = v]

\* the tick counts the timer is stepped by
TimerCycles == {4, 16, 24, 256}

\* the register writes explored: DIV, TIMA, TMA, TAC
TimerWrites == {<<65284, 0>>, <<65285, 255>>, <<65285, 254>>, <<65286, 128>>, <<65286, 255>>,
                <<65287, 5>>, <<65287, 4>>, <<65287, 1>>, <<65287, 7>>}

\* a call of Timer::next
TimerNext ==
    /\ ~panicked
    /\ steps < MaxTimerSteps
    /\ \E c \in TimerCycles :
         LET r == TimerNextOp(timer, intf, c)
         IN  /\ timer' = r.t
             /\ intf' = r.intf
             /\ last' = Op("timer_next", 0, 0, c)
    /\ steps' = steps + 1
    /\ UNCHANGED <<apu, cpu, hram, inte, gpu, dma, speed, emu, win, panicked, dev, cart>>

\* a call of Timer::set
TimerSet ==
    /\ ~panicked
    /\ steps < MaxTimerSteps
    /\ \E w \in TimerWrites :
         /\ timer' = TimerSetOp(timer, w[1], w[2])
         /\ last' = Op("timer_set", w[1], w[2], 0)
    /\ steps' = steps + 1
    /\ UNCHANGED <<apu, cpu, hram, intf, inte, gpu, dma, speed, emu, win, panicked, dev, cart>>

(***************************************************************************)
(* Pixel pipeline (core/gpu.rs): line timing, modes and interrupt requests *)
(***************************************************************************)
\* LCDC::lcd_enable
LcdEnable(g) == Bit(g.lcdc, 7) = 1

\* GPU::power_up followed by the writes of MMUnit::init (LCDC = 0x91, the scroll
\* and window registers 0); data is the framebuffer, kept as the set of lines the
\* renderer has drawn since every pixel was last set to 0xff
GpuPowerUp == [lcdc |-> 145, en_ly |-> FALSE, en_oam |-> FALSE, en_vb |-> FALSE,
               en_hb |-> FALSE, mode |-> "HBlank", ly |-> 0, lyc |-> 0, dots |-> 0,
               h_blank |-> FALSE, v_blank |-> FALSE, data |-> {},
               scy |-> 0, scx |-> 0, wy |-> 0, wx |-> 0,
               has_draw |-> <<>>]    \* GBRender._has_draw

\* GPU::reset
GpuReset(g) ==
    [g EXCEPT !.dots = 0, !.ly = 0, !.mode = "HBlank", !.data = {}, !.v_blank = TRUE]

\* the dots one pass of the loop of GPU::next adds: cycles % 80 on the last pass
GpuChunkAdd(i, c, cycles) == IF i = c - 1 THEN cycles % 80 ELSE 80

\* a mode update that tests for mode 1 before it tests the line, and so never
\* leaves V-blank
GpuModeStaysVBlank(s) ==
    IF s.g.mode = "VBlank" THEN s
    ELSE IF s.g.ly >= 144
    THEN [s EXCEPT !.g.mode = "VBlank", !.g.v_blank = TRUE,
                   !.intf = Or8(Or8(s.intf, 2 ^ 0), IF s.g.en_vb THEN 2 ^ 1 ELSE 0),
                   !.vb = s.vb + 1]
    ELSE IF s.g.dots <= 80
    THEN IF s.g.mode = "SearchOAM" THEN s
         ELSE [s EXCEPT !.g.mode = "SearchOAM",
                        !.intf = Or8(s.intf, IF s.g.en_oam THEN 2 ^ 1 ELSE 0)]
    ELSE IF s.g.dots <= 80 + 172
    THEN [s EXCEPT !.g.mode = "Tran2Driver"]
    ELSE IF s.g.mode = "HBlank" THEN s
         ELSE [s EXCEPT !.g.mode = "HBlank", !.g.h_blank = TRUE,
                        !.intf = Or8(s.intf, IF s.g.en_hb THEN 2 ^ 1 ELSE 0),
                        !.hb = s.hb + 1,
                        !.g.data = s.g.data \cup {s.g.ly}]

\* a mode update that requests the v-blank interrupt on every pass in lines 144..153
GpuModeVBlankAlways(s) ==
    IF s.g.ly >= 144
    THEN [s EXCEPT !.g.mode = "VBlank", !.g.v_blank = TRUE, !.intf = Or8(s.intf, 1),
                   !.vb = s.vb + 1]
    ELSE IF s.g.dots <= 80 THEN [s EXCEPT !.g.mode = "SearchOAM"]
    ELSE IF s.g.dots <= 252 THEN [s EXCEPT !.g.mode = "Tran2Driver"]
    ELSE IF s.g.mode = "HBlank" THEN s
    ELSE [s EXCEPT !.g.mode = "HBlank", !.g.h_blank = TRUE, !.hb = s.hb + 1,
                   !.g.data = s.g.data \cup {s.g.ly}]

\* the mode update of one pass of GPU::next; s = [g, intf, vb, hb]: the GPU, the
\* request register, the number of Intf::hi(VBlank) calls made so far by this call
\* and the number of times it has entered H-blank (where Render::draw fills line ly
\* of the framebuffer)
GpuMode(s) ==
    IF s.g.ly >= 144
    THEN IF s.g.mode = "VBlank" THEN s
         ELSE [s EXCEPT !.g.mode = "VBlank", !.g.v_blank = TRUE,
                        !.intf = Or8(Or8(s.intf, 2 ^ 0), IF s.g.en_vb THEN 2 ^ 1 ELSE 0),
                        !.vb = s.vb + 1]
    ELSE IF s.g.dots <= 80
    THEN IF s.g.mode = "SearchOAM" THEN s
         ELSE [s EXCEPT !.g.mode = "SearchOAM",
                        !.intf = Or8(s.intf, IF s.g.en_oam THEN 2 ^ 1 ELSE 0)]
    ELSE IF s.g.dots <= 80 + 172
    THEN [s EXCEPT !.g.mode = "Tran2Driver"]
    ELSE IF s.g.mode = "HBlank" THEN s
         ELSE [s EXCEPT !.g.mode = "HBlank", !.g.h_blank = TRUE,
                        !.intf = Or8(s.intf, IF s.g.en_hb THEN 2 ^ 1 ELSE 0),
                        !.hb = s.hb + 1,
                        !.g.data = s.g.data \cup {s.g.ly}]

\* one pass of the loop of GPU::next: add the dots, wrap the line, update the mode
GpuChunk(s, add) ==
    LET d  == s.g.dots + add
        s1 == [s EXCEPT !.g.dots = d % 456]
        s2 == IF d # d % 456
              THEN LET ly == (s.g.ly + 1) % 154
                   IN  [s1 EXCEPT !.g.ly = ly,
                                  !.intf = Or8(s1.intf,
                                               IF s.g.en_ly /\ s.g.lyc = ly THEN 2 ^ 1 ELSE 0)]
              ELSE s1
    IN  GpuMode(s2)

\* the loop of GPU::next, passes i..c-1
RECURSIVE GpuLoop(_, _, _, _)
GpuLoop(s, i, c, cycles) ==
    IF i >= c THEN s
    ELSE GpuLoop(GpuChunk(s, GpuChunkAdd(i, c, cycles)), i + 1, c, cycles)

\* a GPU::next that runs its loop whether or not the LCD is enabled
GpuNextOpNoGate(g, f, cycles) ==
    LET s0 == [g |-> g, intf |-> f, vb |-> 0, hb |-> 0]
    IN  LET s1 == [s0 EXCEPT !.g.h_blank = FALSE]
        IN  IF cycles = 0 THEN s1
            ELSE GpuLoop(s1, 0, (cycles - 1) \div 80 + 1, cycles)

\* GPU::next
GpuNextOp(g, f, cycles) ==
    LET s0 == [g |-> g, intf |-> f, vb |-> 0, hb |-> 0]
    IN  IF ~LcdEnable(g) THEN s0
        ELSE LET s1 == [s0 EXCEPT !.g.h_blank = FALSE]
             IN  IF cycles = 0 THEN s1
                 ELSE GpuLoop(s1, 0, (cycles - 1) \div 80 + 1, cycles)

\* LCDS::set
LcdsSet(g, v) == [g EXCEPT !.en_ly = Bit(v, 6) = 1, !.en_oam = Bit(v, 5) = 1,
                           !.en_vb = Bit(v, 4) = 1, !.en_hb = Bit(v, 3) = 1]

\* GPU::set for LCDC, STAT, SCY, SCX, LY, LYC, WY and WX
GpuSetOp(g, a, v) ==
    CASE a = 65344 -> LET g1 == [g EXCEPT !.lcdc = v]
                      IN  IF ~LcdEnable(g1) THEN GpuReset(g1) ELSE g1
      [] a = 65345 -> LcdsSet(g, v)
      [] a = 65346 -> [g EXCEPT !.scy = v]
      [] a = 65347 -> [g EXCEPT !.scx = v]
      [] a = 65348 -> g
      [] a = 65349 -> [g EXCEPT !.lyc = v]
      [] a = 65354 -> [g EXCEPT !.wy = v]
      [] a = 65355 -> [g EXCEPT !.wx = v]

\* the tick counts GPU::next is given by MMUnit::next: an opcode's ticks (4..24)
\* plus eight per block of a general DMA (80 = 8 + 9 * 8, 456 = 8 + 56 * 8)
GpuCycles == {8, 80, 456}

\* the writes to the PPU registers explored: LCDC off and on
GpuWrites == {<<65344, 17>>, <<65344, 145>>}

\* a call of GPU::next with c ticks
GpuNextWith(c) ==
    /\ ~panicked
    /\ LET r == GpuNextOp(gpu, intf, c)
       IN  /\ gpu' = r.g
           /\ intf' = r.intf
           /\ last' = Op("gpu_next", 0, r.vb, 0)
    /\ UNCHANGED <<apu, cpu, hram, inte, timer, dma, speed, emu, win, steps, panicked, dev, cart>>

GpuNext == \E c \in GpuCycles : GpuNextWith(c)

\* a call of GPU::set
GpuSet ==
    /\ ~panicked
    /\ \E w \in GpuWrites :
         /\ gpu' = GpuSetOp(gpu, w[1], w[2])
         /\ last' = Op("gpu_set", w[1], w[2], 0)
    /\ UNCHANGED <<apu, cpu, hram, intf, inte, timer, dma, speed, emu, win, steps, panicked, dev, cart>>

\* number of writes to the scroll and window registers explored from power-up
MaxTileSteps == 4

\* the last line the PPU is stepped to while tile locations are computed
MaxTileLine == 2

\* Render::_tile_location for the pixel sx of the line gpu.ly: the position
\* (tx, ty) within the tile and the address of the tile's entry in the tile map
TileLocation(g, sx) ==
    LET wx == (g.wx + 249) % 256
        window_enable == Bit(g.lcdc, 5) = 1
        in_win == window_enable /\ g.ly >= g.wy /\ sx >= wx
        y == IF window_enable /\ g.ly >= g.wy THEN g.ly - g.wy
             ELSE (g.scy + g.ly) % 256
        x == IF in_win THEN sx - wx ELSE (g.scx + sx) % 256
        tmap_base == IF in_win THEN (IF Bit(g.lcdc, 6) = 1 THEN 39936 ELSE 38912)
                     ELSE (IF Bit(g.lcdc, 3) = 1 THEN 39936 ELSE 38912)
    IN  <<x % 8, y % 8, tmap_base + (y \div 8) * 32 + x \div 8>>

\* the writes to the PPU registers explored while tile locations are computed:
\* LCDC with the window on (its map at 0x9c00, the background's at 0x9800), SCY,
\* SCX, WY and WX
TileWrites ==
    {<<65344, 241>>, <<65346, 24>>, <<65347, 16>>, <<65354, 1>>, <<65355, 87>>,
     <<65355, 7>>}

\* the pixels of a line whose tile location is computed: both ends of the line
\* and the two pixels around the left edge of a window at WX = 87
TileColumns == {0, 79, 80, 159}

\* a call of GPU::set for a scroll or window register
TileWrite ==
    /\ ~panicked
    /\ steps < MaxTileSteps
    /\ \E w \in TileWrites :
         /\ gpu' = GpuSetOp(gpu, w[1], w[2])
         /\ last' = Op("gpu_set", w[1], w[2], 0)
    /\ steps' = steps + 1
    /\ UNCHANGED <<apu, cpu, hram, intf, inte, timer, dma, speed, emu, win, panicked, dev,
                   cart>>

\* a call of GPU::next that takes the PPU through one line
TileLine ==
    /\ gpu.ly < MaxTileLine
    /\ GpuNextWith(456)

\* a call of _tile_location by draw_bg, for one pixel of the current line
TileLocate ==
    /\ ~panicked
    /\ gpu.ly < 144
    /\ \E sx \in TileColumns :
         last' = OpR("tile", sx, 0, 0, TileLocation(gpu, sx))
    /\ UNCHANGED <<apu, cpu, hram, intf, inte, timer, gpu, dma, speed, emu, win, steps,
                   panicked, dev, cart>>

\* the longest list of drawn sprites explored
MaxLen == 5

\* the x positions of the sprites drawn: both ends of the range of a byte,
\* neighbours and a value in the middle
SpriteXs == {0, 1, 2, 96, 255}

\* the loop of bs_insert_at with the last branch returning l
RECURSIVE BsLoopLeft(_, _, _, _, _, _)
BsLoopLeft(list, v, l, r, c, k) ==
    LET l1 == IF v >= list[c + 1] THEN c ELSE l
        r1 == IF v >= list[c + 1] THEN r ELSE c
        c1 == (l1 + r1) \div 2
    IN  IF c1 = l1
        THEN (IF v < list[l1 + 1] THEN l1
              ELSE IF v > list[r1 + 1] THEN r1 + 1
              ELSE l1)
        ELSE IF k = 0 THEN 0 - 1
        ELSE BsLoopLeft(list, v, l1, r1, c1, k - 1)

\* the loop of bs_insert_at from the bounds l and r and the index c compared
\* next (indices count from 0 as in the code); k is the number of further
\* passes followed, and the result is -1 if the loop has not returned by then
RECURSIVE BsLoop(_, _, _, _, _, _)
BsLoop(list, v, l, r, c, k) ==
    LET l1 == IF v >= list[c + 1] THEN c ELSE l
        r1 == IF v >= list[c + 1] THEN r ELSE c
        c1 == (l1 + r1) \div 2
    IN  IF c1 = l1
        THEN (IF v < list[l1 + 1] THEN l1
              ELSE IF v > list[r1 + 1] THEN r1 + 1
              ELSE r1)
        ELSE IF k = 0 THEN 0 - 1
        ELSE BsLoop(list, v, l1, r1, c1, k - 1)

\* bs_insert_at
BsInsertAt(list, v) ==
    IF Len(list) = 0 THEN 0
    ELSE IF Len(list) = 1 THEN (IF v > list[1] THEN 1 ELSE 0)
    ELSE LET max == Len(list) - 1
         IN  BsLoop(list, v, 0, max, max \div 2, Len(list))

\* Vec::insert of v at the index i, counted from 0
VecInsert(list, i, v) == SubSeq(list, 1, i) \o <<v>> \o SubSeq(list, i + 1, Len(list))

\* the end of the pass of draw_sprites for a sprite at sx that is drawn on the
\* line: bs_insert_at, then _has_draw.insert(si, sx), which panics for an
\* index outside 0..len
SpriteInsert ==
    /\ ~panicked
    /\ Len(gpu.has_draw) < MaxLen
    /\ \E sx \in SpriteXs :
         LET si == BsInsertAt(gpu.has_draw, sx)
         IN  /\ last' = OpR("insert", sx, si, 0, gpu.has_draw)
             /\ IF si \in 0 .. Len(gpu.has_draw)
                THEN /\ gpu' = [gpu EXCEPT !.has_draw = VecInsert(@, si, sx)]
                     /\ panicked' = panicked
                ELSE /\ gpu' = gpu
                     /\ panicked' = TRUE
    /\ UNCHANGED <<apu, cpu, hram, intf, inte, timer, dma, speed, emu, win, steps, dev,
                   cart>>

(***************************************************************************)
(* VRAM DMA (core/dma.rs), speed switch (core/speed.rs) and the memory-map *)
(* unit's advance (core/mmunit.rs)                                         *)
(***************************************************************************)
\* number of MotherBoard::next steps explored from power-up
MaxMmuSteps == 4

\* DMA::power_up
DmaPowerUp == [src |-> 0, dst |-> 32768, active |-> FALSE, mode |-> "GDMA", remain |-> 0]

\* Speed::power_up
SpeedPowerUp == [mode |-> 1, prepare_switch |-> FALSE]

\* Speed::switch_speed
SwitchSpeed(sp) ==
    IF ~sp.prepare_switch THEN sp
    ELSE [mode |-> IF sp.mode = 2 THEN 1 ELSE 2, prepare_switch |-> FALSE]

\* Speed::set
SpeedSet(sp, v) == [sp EXCEPT !.prepare_switch = Bit(v, 0) = 1]

\* DMA::get
DmaGet(d, a) ==
    CASE a = 65361 -> Hi8(d.src)
      [] a = 65362 -> Lo(d.src)
      [] a = 65363 -> Hi8(d.dst)
      [] a = 65364 -> Lo(d.dst)
      [] a = 65365 -> IF d.active THEN d.remain ELSE Or8(d.remain, 128)

\* DMA::set with the `if v & 0x80 == 0` arm of an active H-blank transfer removed
DmaSetNoCancel(d, a, v) ==
    CASE a = 65361 -> [d EXCEPT !.src = v * 256 + Lo(d.src)]
      [] a = 65362 -> [d EXCEPT !.src = And8(v, 240) + 256 * Hi8(d.src)]
      [] a = 65363 -> [d EXCEPT !.dst = 32768 + And8(v, 31) * 256 + Lo(d.dst)]
      [] a = 65364 -> [d EXCEPT !.dst = And8(v, 240) + 256 * (d.dst \div 256)]
      [] a = 65365 ->
           IF d.active /\ d.mode = "HDMA"
           THEN d
           ELSE [d EXCEPT !.active = TRUE, !.remain = And8(v, 127),
                          !.mode = IF Bit(v, 7) = 0 THEN "GDMA" ELSE "HDMA"]

\* DMA::set
DmaSet(d, a, v) ==
    CASE a = 65361 -> [d EXCEPT !.src = v * 256 + Lo(d.src)]
      [] a = 65362 -> [d EXCEPT !.src = And8(v, 240) + 256 * Hi8(d.src)]
      [] a = 65363 -> [d EXCEPT !.dst = 32768 + And8(v, 31) * 256 + Lo(d.dst)]
      [] a = 65364 -> [d EXCEPT !.dst = And8(v, 240) + 256 * (d.dst \div 256)]
      [] a = 65365 ->
           IF d.active /\ d.mode = "HDMA"
           THEN IF Bit(v, 7) = 0 THEN [d EXCEPT !.active = FALSE] ELSE d
           ELSE [d EXCEPT !.active = TRUE, !.remain = And8(v, 127),
                          !.mode = IF Bit(v, 7) = 0 THEN "GDMA" ELSE "HDMA"]

\* GPU::set accepts the destination block: its 16 bytes lie in 0x8000..0x9fff
\* (any other address reaches the panic! arm of GPU::set)
DstInVram(dst) == dst >= 32768 /\ dst + 15 <= 40959

\* MMUnit::run_dma_hram_copy: r = [d, copied, panic]; copied logs the <<source,
\* destination>> of each 16-byte block moved
DmaCopyBlock(r) ==
    IF r.panic THEN r
    ELSE IF ~DstInVram(r.d.dst) THEN [r EXCEPT !.panic = TRUE]
    ELSE [r EXCEPT !.copied = Append(r.copied, <<r.d.src, r.d.dst>>),
                   !.d.src = r.d.src + 16,
                   !.d.dst = r.d.dst + 16,
                   !.d.remain = IF r.d.remain = 0 THEN 127 ELSE r.d.remain - 1]

\* the for loop of the GDMA arm of MMUnit::run_dma
RECURSIVE DmaCopyBlocks(_, _)
DmaCopyBlocks(r, k) == IF k = 0 THEN r ELSE DmaCopyBlocks(DmaCopyBlock(r), k - 1)

\* MMUnit::run_dma: [d, copied, panic, cost]
RunDma(d, g) ==
    LET r0 == [d |-> d, copied |-> <<>>, panic |-> FALSE, cost |-> 0]
    IN  IF ~d.active THEN r0
        ELSE IF d.mode = "GDMA"
        THEN LET len == d.remain + 1
                 r1  == DmaCopyBlocks(r0, len)
             IN  IF r1.panic THEN r1
                 ELSE [r1 EXCEPT !.d.active = FALSE, !.cost = len * 8]
        ELSE IF ~g.h_blank THEN r0
             ELSE LET r1 == DmaCopyBlock(r0)
                  IN  IF r1.panic THEN r1 ELSE [r1 EXCEPT !.cost = 8]

\* the peripherals MMUnit::next and MMUnit::set act on
Mmu == [timer |-> timer, gpu |-> gpu, dma |-> dma, speed |-> speed, intf |-> intf,
        inte |-> inte, panic |-> FALSE, copied |-> <<>>, cost |-> 0, vb |-> 0, hb |-> 0]

\* MMUnit::next
MmuNextOp(m, cycles) ==
    LET cpu_speed == m.speed.mode
        rd == RunDma(m.dma, m.gpu)
    IN  IF rd.panic
        THEN [m EXCEPT !.dma = rd.d, !.copied = rd.copied, !.panic = TRUE]
        ELSE LET gpu_cycles == cycles \div cpu_speed + rd.cost
                 cpu_cycles == cycles + rd.cost * cpu_speed
                 rt == TimerNextOp(m.timer, m.intf, cpu_cycles)
                 rg == GpuNextOp(m.gpu, rt.intf, gpu_cycles)
             IN  [m EXCEPT !.dma = rd.d, !.copied = rd.copied, !.cost = rd.cost,
                           !.timer = rt.t, !.gpu = rg.g, !.intf = rg.intf, !.vb = rg.vb,
                           !.hb = rg.hb]

\* MMUnit::set for the registers of the timer, the PPU, the speed switch, the VRAM
\* DMA and the interrupt registers
MmuSetOp(m, a, v) ==
    CASE a \in 65284..65287 -> [m EXCEPT !.timer = TimerSetOp(m.timer, a, v)]
      [] a = 65295 -> [m EXCEPT !.intf = v]
      [] a = 65357 -> [m EXCEPT !.speed = SpeedSet(m.speed, v)]
      [] a \in {65344, 65345, 65348, 65349} -> [m EXCEPT !.gpu = GpuSetOp(m.gpu, a, v)]
      [] a \in 65361..65365 -> [m EXCEPT !.dma = DmaSet(m.dma, a, v)]
      [] a = 65535 -> [m EXCEPT !.inte = v]

\* the bus writes an instruction may make before the peripherals advance
BusWrites == {<<65365, 29>>, <<65365, 128>>, <<65365, 1>>,
              <<65363, 31>>, <<65364, 240>>, <<65344, 17>>, <<65357, 1>>}

\* the ticks Cpu::next reports for an instruction that makes no write (HALT's table
\* entry is 0, NOP 4, a halted CPU 4, an interrupt 16)
IdleCycles == {4, 16}

\* the ticks of an instruction that writes one byte: LDH (a8),A 12
WriteCycles == {12}

\* what an advance did: the blocks its DMA copied, the ticks the DMA cost, the
\* v-blank requests made and the H-blanks entered by the PPU
MmuDid(m) == [copied |-> m.copied, cost |-> m.cost, vb |-> m.vb, hb |-> m.hb]

\* the variables of the unit after an operation that left m
MmuAssign(m) ==
    /\ timer' = m.timer
    /\ gpu' = m.gpu
    /\ dma' = m.dma
    /\ speed' = m.speed
    /\ intf' = m.intf
    /\ inte' = m.inte
    /\ panicked' = m.panic

\* MotherBoard::next where the instruction is STOP (0x10): the speed switch, then
\* the opcode (no effect, 0 ticks in OP_CYCLES), then MMUnit::next
MbrdNextStop ==
    /\ ~panicked
    /\ steps < MaxMmuSteps
    /\ LET m == MmuNextOp([Mmu EXCEPT !.speed = SwitchSpeed(speed)], 0)
       IN  /\ MmuAssign(m)
           /\ last' = OpR("stop", 0, 0, 0, MmuDid(m))
    /\ steps' = steps + 1
    /\ UNCHANGED <<apu, cpu, hram, emu, win, dev, cart>>

\* MotherBoard::next where the instruction writes no peripheral register
MbrdNextIdle ==
    /\ ~panicked
    /\ steps < MaxMmuSteps
    /\ \E c \in IdleCycles :
         LET m == MmuNextOp(Mmu, c)
         IN  /\ MmuAssign(m)
             /\ last' = OpR("idle", 0, 0, c, MmuDid(m))
    /\ steps' = steps + 1
    /\ UNCHANGED <<apu, cpu, hram, emu, win, dev, cart>>

\* MotherBoard::next where the instruction stores v at a: MMUnit::set, then
\* MMUnit::next with the instruction's ticks
MbrdNextWrite ==
    /\ ~panicked
    /\ steps < MaxMmuSteps
    /\ \E w \in BusWrites, c \in WriteCycles :
         LET m == MmuNextOp(MmuSetOp(Mmu, w[1], w[2]), c)
         IN  /\ MmuAssign(m)
             /\ last' = OpR("write", w[1], w[2], c,
                            MmuDid(m))
    /\ steps' = steps + 1
    /\ UNCHANGED <<apu, cpu, hram, emu, win, dev, cart>>

(***************************************************************************)
(* The emulator's run loop and the host's control calls                    *)
(* (device/emulator.rs, api.rs)                                            *)
(***************************************************************************)
\* the executed-instruction counter is kept modulo this
InstrMod == 3

\* Emulator::create, before run_emulator: both flags false, no thread
EmuCreate == [is_running |-> FALSE, is_pause |-> FALSE,
              token |-> FALSE,      \* the unpark permit of the emulation thread
              spawned |-> FALSE,    \* RUNNING_EMU is Some
              freed |-> FALSE,      \* exit_emulator has dropped the Emulator box
              pc |-> "idle",        \* position of the emulation thread in Emulator::run
              instr |-> 0,          \* instructions executed by mbrd.next(), mod InstrMod
              saved |-> FALSE,      \* cartridge.save() has been called
              seenPause |-> FALSE,  \* history: the loop saw is_pause set, no resume() since
              exitAt |-> "none",    \* history: where the thread was when exit() was called
              pc2 |-> "idle"]       \* position of the thread of a second run request

\* what a load of an Emulator flag can return: its value, or, once exit_emulator has
\* freed the Emulator, whatever the freed memory holds
Load(flag) == IF emu.freed THEN BOOLEAN ELSE {flag}

EmuOthers == <<apu, cpu, hram, intf, inte, timer, gpu, dma, speed, win, steps, panicked, dev, cart>>

\* run_emulator: returns if the emulator is running, else spawns the thread
RunEmulator ==
    /\ emu.pc = "idle" /\ ~emu.spawned /\ ~emu.freed
    /\ ~emu.is_running
    /\ emu' = [emu EXCEPT !.spawned = TRUE, !.pc = "start"]
    /\ last' = Op("run_emulator", 0, 0, 0)
    /\ UNCHANGED EmuOthers

\* pause_emulator / Emulator::pause
PauseEmulator ==
    /\ ~emu.freed
    /\ emu' = [emu EXCEPT !.is_pause = TRUE]
    /\ last' = Op("pause", 0, 0, 0)
    /\ UNCHANGED EmuOthers

\* resume_emulator / Emulator::resume: clears the flag and unparks the thread
ResumeEmulator ==
    /\ ~emu.freed
    /\ emu.spawned
    /\ emu' = [emu EXCEPT !.is_pause = FALSE, !.token = TRUE, !.seenPause = FALSE]
    /\ last' = Op("resume", 0, 0, 0)
    /\ UNCHANGED EmuOthers

\* exit_emulator: Emulator::exit, then the Emulator box is dropped and RUNNING_EMU
\* forgotten (the thread is neither unparked nor joined)
ExitEmulator ==
    /\ ~emu.freed
    /\ emu' = [emu EXCEPT !.is_running = FALSE, !.freed = TRUE, !.spawned = FALSE,
                          !.exitAt = emu.pc]
    /\ last' = Op("exit", 0, 0, 0)
    /\ UNCHANGED EmuOthers

\* Emulator::run up to the loop: the already-running check, the flag store, power-up
RunStart ==
    /\ emu.pc = "start"
    /\ \E r \in Load(emu.is_running) :
         emu' = IF r THEN [emu EXCEPT !.pc = "returned"]
                ELSE [emu EXCEPT !.is_running = TRUE, !.pc = "loop"]
    /\ last' = Op("run_start", 0, 0, 0)
    /\ UNCHANGED EmuOthers

\* the loop's first check: break when is_running is false
RunCheckRunning ==
    /\ emu.pc = "loop"
    /\ \E r \in Load(emu.is_running) :
         emu' = [emu EXCEPT !.pc = IF r THEN "pause_check" ELSE "save"]
    /\ last' = Op("check_running", 0, 0, 0)
    /\ UNCHANGED EmuOthers

\* the loop's second check: park when is_pause is true
RunCheckPause ==
    /\ emu.pc = "pause_check"
    /\ \E p \in Load(emu.is_pause) :
         emu' = IF p THEN [emu EXCEPT !.pc = "park", !.seenPause = TRUE]
                ELSE [emu EXCEPT !.pc = "exec"]
    /\ last' = Op("check_pause", 0, 0, 0)
    /\ UNCHANGED EmuOthers

\* thread::park returns at once when the permit is there, and consumes it
RunParkToken ==
    /\ emu.pc = "park"
    /\ emu.token
    /\ emu' = [emu EXCEPT !.token = FALSE, !.pc = "exec"]
    /\ last' = Op("park_return", 0, 0, 0)
    /\ UNCHANGED EmuOthers

\* thread::park may return spuriously, without a permit
RunParkSpurious ==
    /\ emu.pc = "park"
    /\ ~emu.token
    /\ emu' = [emu EXCEPT !.pc = "exec"]
    /\ last' = Op("park_spurious", 0, 0, 0)
    /\ UNCHANGED EmuOthers

\* the rest of the loop body: mbrd.next() executes one instruction and advances the
\* peripherals, then the frame and input polls; back to the top of the loop
RunExec ==
    /\ emu.pc = "exec"
    /\ emu' = [emu EXCEPT !.instr = (emu.instr + 1) % InstrMod, !.pc = "loop"]
    /\ last' = Op("exec", 0, 0, 0)
    /\ UNCHANGED EmuOthers

\* after the loop: cartridge.save(), then run returns
RunSave ==
    /\ emu.pc = "save"
    /\ emu' = [emu EXCEPT !.saved = TRUE, !.pc = "returned"]
    /\ last' = Op("save", 0, 0, 0)
    /\ UNCHANGED EmuOthers

\* run_emulator called again after a first request: it returns if is_running is
\* set, else spawns a second thread on the same Emulator and overwrites
\* RUNNING_EMU
RunEmulatorAgain ==
    /\ emu.spawned /\ ~emu.freed
    /\ emu.pc2 = "idle"
    /\ emu' = IF emu.is_running THEN emu ELSE [emu EXCEPT !.pc2 = "start"]
    /\ last' = Op("run_emulator_again", 0, 0, 0)
    /\ UNCHANGED EmuOthers

\* Emulator::run on the second thread: the load of the already-running check
RunAgainCheck ==
    /\ emu.pc2 = "start"
    /\ \E r \in Load(emu.is_running) :
         emu' = [emu EXCEPT !.pc2 = IF r THEN "returned" ELSE "store"]
    /\ last' = Op("run_again_check", 0, 0, 0)
    /\ UNCHANGED EmuOthers

\* Emulator::run on the second thread: the store of is_running and the power-up,
\* after which the thread is in its loop
RunAgainStore ==
    /\ emu.pc2 = "store"
    /\ emu' = [emu EXCEPT !.is_running = TRUE, !.pc2 = "loop"]
    /\ last' = Op("run_again_store", 0, 0, 0)
    /\ UNCHANGED EmuOthers

\* the steps the emulation thread takes whenever it is scheduled
EmuThread ==
    \/ RunStart \/ RunCheckRunning \/ RunCheckPause \/ RunParkToken \/ RunExec \/ RunSave

(***************************************************************************)
(* The window's frame queue (device/window.rs)                             *)
(***************************************************************************)
\* frames are numbered 1..MaxFrames, cyclically
MaxFrames == 3

\* buffers the model can allocate (the queue discipline never needs more than 3)
MaxBuffers == 4

BufIds == 1..MaxBuffers

\* WindowBuffer::new, with the producer (Window::update_buffer, emulation thread)
\* and the consumer (Window::get_buffer, host thread) outside any call
WinNew == [buffers |-> <<>>, caches |-> <<>>, lock |-> FALSE,
           content |-> [b \in BufIds |-> <<>>],   \* the pixels of each buffer
           allocated |-> 0,                       \* buffers created so far
           ppc |-> "get_free", pbuf |-> 0,        \* producer: position, buffer owned
           frame |-> 1,                           \* the frame the producer writes
           cpc |-> "get_render", held |-> 0,      \* consumer: position, slice held
           snap |-> <<>>]                         \* history: the pixels when returned

WinOthers == <<apu, cpu, hram, intf, inte, timer, gpu, dma, speed, emu, steps, panicked, dev, cart>>

InSeq(x, q) == \E i \in 1..Len(q) : q[i] = x

Front(q) == q[1]

Back(q) == q[Len(q)]

PopFront(q) == SubSeq(q, 2, Len(q))

PopBack(q) == SubSeq(q, 1, Len(q) - 1)

\* WindowBuffer::acquire_lock by the producer: the exchange succeeds when the lock is free
ProdAcquire ==
    /\ win.ppc \in {"get_free", "add_render"}
    /\ ~win.lock
    /\ win' = [win EXCEPT !.lock = TRUE,
                          !.ppc = IF win.ppc = "get_free" THEN "gf_body" ELSE "ar_body"]
    /\ last' = Op("prod_acquire", 0, 0, 0)
    /\ UNCHANGED WinOthers

\* get_free_buffer under the lock: pop the front of caches, or create a buffer
GetFreeBuffer ==
    /\ win.ppc = "gf_body"
    /\ IF win.caches = <<>>
       THEN /\ win.allocated < MaxBuffers
            /\ win' = [win EXCEPT !.allocated = win.allocated + 1,
                                  !.pbuf = win.allocated + 1,
                                  !.content[win.allocated + 1] = <<>>,
                                  !.ppc = "gf_release"]
       ELSE win' = [win EXCEPT !.pbuf = Front(win.caches),
                               !.caches = PopFront(win.caches),
                               !.ppc = "gf_release"]
    /\ last' = Op("get_free_buffer", 0, 0, 0)
    /\ UNCHANGED WinOthers

\* WindowBuffer::release_lock by the producer
ProdRelease ==
    /\ win.ppc \in {"gf_release", "ar_release"}
    /\ win.lock
    /\ win' = [win EXCEPT !.lock = FALSE,
                          !.ppc = IF win.ppc = "gf_release" THEN "clear" ELSE "get_free",
                          !.frame = IF win.ppc = "ar_release"
                                    THEN (win.frame % MaxFrames) + 1 ELSE win.frame]
    /\ last' = Op("prod_release", 0, 0, 0)
    /\ UNCHANGED WinOthers

\* Window::update_buffer: buffer.clear()
ProdClear ==
    /\ win.ppc = "clear"
    /\ win' = [win EXCEPT !.content[win.pbuf] = <<>>, !.ppc = "fill"]
    /\ last' = Op("clear", 0, 0, 0)
    /\ UNCHANGED WinOthers

\* Window::update_buffer: the rows are appended one after the other (two here)
ProdFill ==
    /\ win.ppc = "fill"
    /\ win' = [win EXCEPT !.content[win.pbuf] = Append(win.content[win.pbuf], win.frame),
                          !.ppc = IF Len(win.content[win.pbuf]) = 1 THEN "add_render"
                                  ELSE "fill"]
    /\ last' = Op("fill", 0, 0, 0)
    /\ UNCHANGED WinOthers

\* an add_render_buffer that recycles the front frame (the one being rendered)
RecycleFront(w) == [w EXCEPT !.buffers = PopFront(w.buffers),
                             !.caches = Append(w.caches, Front(w.buffers))]

\* add_render_buffer: with more than one queued frame, the last one goes to caches
RecycleOld(w) == [w EXCEPT !.buffers = PopBack(w.buffers),
                           !.caches = Append(w.caches, Back(w.buffers))]

\* add_render_buffer under the lock
AddRenderBuffer ==
    /\ win.ppc = "ar_body"
    /\ LET w1 == IF Len(win.buffers) > 1 THEN RecycleOld(win) ELSE win
       IN  win' = [w1 EXCEPT !.buffers = Append(w1.buffers, win.pbuf), !.pbuf = 0,
                             !.ppc = "ar_release"]
    /\ last' = Op("add_render_buffer", 0, 0, 0)
    /\ UNCHANGED WinOthers

\* the consumer calls get_render_buffer again (the slice it held is given up) and
\* takes the lock
ConsAcquire ==
    /\ win.cpc = "get_render"
    /\ ~win.lock
    /\ win' = [win EXCEPT !.lock = TRUE, !.cpc = "gr_body", !.held = 0, !.snap = <<>>]
    /\ last' = Op("cons_acquire", 0, 0, 0)
    /\ UNCHANGED WinOthers

\* get_render_buffer under the lock: drop the rendered frame when a newer one is
\* queued, create an empty frame when none is
GetRenderBuffer ==
    /\ win.cpc = "gr_body"
    /\ LET w1 == IF Len(win.buffers) > 1
                 THEN [win EXCEPT !.buffers = PopFront(win.buffers),
                                  !.caches = Append(win.caches, Front(win.buffers))]
                 ELSE win
       IN  IF w1.buffers = <<>>
           THEN /\ win.allocated < MaxBuffers
                /\ win' = [w1 EXCEPT !.allocated = win.allocated + 1,
                                     !.buffers = <<win.allocated + 1>>,
                                     !.content[win.allocated + 1] = <<0, 0>>,
                                     !.cpc = "gr_release"]
           ELSE win' = [w1 EXCEPT !.cpc = "gr_release"]
    /\ last' = Op("get_render_buffer", 0, 0, 0)
    /\ UNCHANGED WinOthers

\* release_lock by the consumer; get_render_buffer returns the front frame
ConsRelease ==
    /\ win.cpc = "gr_release"
    /\ win.lock
    /\ win' = [win EXCEPT !.lock = FALSE, !.cpc = "get_render",
                          !.held = Front(win.buffers),
                          !.snap = win.content[Front(win.buffers)]]
    /\ last' = Op("cons_release", 0, 0, 0)
    /\ UNCHANGED WinOthers

(***************************************************************************)
(* Work RAM, OAM, the colour palette window and the joypad behind the      *)
(* MMUnit (core/wram.rs, core/gpu.rs, core/joypad.rs, core/mmunit.rs)      *)
(***************************************************************************)
\* number of bus writes explored from power-up
MaxBusSteps == 3

\* number of OAM bytes kept (the code's 0xa0), and of the bytes at the start of
\* each 4 KiB work-RAM page
OamLen == 2

\* the offsets kept inside a 4 KiB work-RAM page: its first bytes and 0xdff, the
\* last offset the echo area reaches
WramOffsets == (0 .. OamLen - 1) \cup {3583}

\* the indices of WRAM.wram kept: the offsets above in page 0 and in pages 1..7
WramCells == {4096 * b + o : b \in 0 .. 7, o \in WramOffsets}

\* MMUnit::power_up for WRAM::power_up, GPU.oam, BGPI::power_up,
\* PaletteData::power_up (data[p_num][c_num] is bgpd[<<p_num, c_num>>]) and
\* Joypad::power_up, with Keyboard::create (pressed_key); bgpd_log is history: the bytes written to 0xff69 since 0x80
\* was last written to 0xff68, or "none" when some other write to 0xff68 followed
DevPowerUp ==
    [wram_bank |-> 1, wram |-> [i \in WramCells |-> 0],
     oam |-> [i \in 0 .. OamLen - 1 |-> 0],
     bgpi |-> [i |-> 0, auto_inc |-> FALSE],
     bgpd |-> [pc \in (0 .. 7) \X (0 .. 3) |-> <<0, 0, 0>>],
     bgpd_log |-> "none",
     signals |-> 255, select |-> 0, pressed_key |-> 0,
     panic |-> FALSE]

\* PaletteData::get; data[..][0], [1], [2] are c[1], c[2], c[3]
PaletteGet(data, i) ==
    LET c == data[<<i \div 8, (i \div 2) % 4>>]
    IN  IF i % 2 = 0
        THEN Or8(c[1], (c[2] * 32) % 256)
        ELSE Or8(c[2] \div 8, (c[3] * 4) % 256)

\* PaletteData::set
PaletteSet(data, i, v) ==
    LET pc == <<i \div 8, (i \div 2) % 4>>
        old_green == data[pc][2]
    IN  IF i % 2 = 0
        THEN [data EXCEPT ![pc] = <<And8(v, 31),
                                     Or8(And8(old_green, 24), v \div 32),
                                     data[pc][3]>>]
        ELSE [data EXCEPT ![pc] = <<data[pc][1],
                                     Or8(And8(old_green, 7), And8(v, 3) * 8),
                                     And8(v \div 4, 31)>>]

\* WRAM's index with the upper echo area (0xf000..0xfdff) fixed to page 1
WramIndexEchoPage1(d, a) ==
    CASE a \in 49152 .. 53247 -> a - 49152
      [] a \in 53248 .. 57343 -> a - 53248 + 4096 * d.wram_bank
      [] a \in 57344 .. 61439 -> a - 57344
      [] a \in 61440 .. 65023 -> a - 61440 + 4096

\* the index WRAM::get and WRAM::set compute for an address in 0xc000..0xfdff
WramIndex(d, a) ==
    CASE a \in 49152 .. 53247 -> a - 49152
      [] a \in 53248 .. 57343 -> a - 53248 + 4096 * d.wram_bank
      [] a \in 57344 .. 61439 -> a - 57344
      [] a \in 61440 .. 65023 -> a - 61440 + 4096 * d.wram_bank

\* WRAM::get
WramGet(d, a) == IF a = 65392 THEN d.wram_bank ELSE d.wram[WramIndex(d, a)]

\* WRAM::set, with WRAM::set_wram_bank
WramSet(d, a, v) ==
    IF a = 65392
    THEN [d EXCEPT !.wram_bank = IF And8(v, 7) = 0 THEN 1 ELSE And8(v, 7)]
    ELSE [d EXCEPT !.wram[WramIndex(d, a)] = v]

\* the I/O addresses no arm of MMUnit::get names, which its `_` arm answers
UnmappedIo ==
    {65283} \cup (65288 .. 65294) \cup {65350, 65356, 65358, 65360}
        \cup (65366 .. 65383) \cup (65388 .. 65391) \cup (65393 .. 65407)

\* MMUnit::get for work RAM, its echo, OAM, Joypad::get (0xff00), the work-RAM
\* bank register and, through GPU::get, BGPI::get (0xff68) and the palette byte
\* at the index (0xff69), for the unused area 0xfea0..=0xfeff and for the
\* unmapped I/O addresses
DevGet(d, a) ==
    CASE a \in 49152 .. 65023 -> WramGet(d, a)
      [] a \in 65024 .. 65183 -> d.oam[a - 65024]
      [] a = 65280 ->
           IF Bit(d.select, 4) = 0 THEN Or8(d.select, And8(d.signals, 15))
           ELSE IF Bit(d.select, 5) = 0 THEN Or8(d.select, d.signals \div 16)
           ELSE d.select
      [] a = 65384 -> Or8(d.bgpi.i, IF d.bgpi.auto_inc THEN 128 ELSE 0)
      [] a = 65385 -> PaletteGet(d.bgpd, d.bgpi.i)
      [] a = 65392 -> WramGet(d, a)
      [] a \in 65184 .. 65279 -> 0
      [] a \in UnmappedIo -> 0

\* the loop of the 0xff46 arm of MMUnit::set, from byte i on
RECURSIVE OamCopy(_, _, _)
OamCopy(d, base, i) ==
    IF i = OamLen THEN d
    ELSE OamCopy([d EXCEPT !.oam[i] = DevGet(d, base + i)], base, i + 1)

\* MMUnit::set for work RAM, its echo, OAM, Joypad::set (0xff00), the OAM DMA
\* trigger, the work-RAM bank register and, through GPU::set, BGPI::set (0xff68)
\* and PaletteData::set followed by BGPI::increase (0xff69), and for the unused
\* area 0xfea0..=0xfeff
DevSet(d, a, v) ==
    CASE a \in 49152 .. 65023 -> WramSet(d, a, v)
      [] a \in 65024 .. 65183 -> [d EXCEPT !.oam[a - 65024] = v]
      [] a = 65280 -> [d EXCEPT !.select = v]
      [] a = 65350 -> IF v > 241 THEN [d EXCEPT !.panic = TRUE]
                      ELSE OamCopy(d, v * 256, 0)
      [] a = 65384 -> [d EXCEPT !.bgpi = [i |-> And8(v, 63), auto_inc |-> Bit(v, 7) = 1]]
      [] a = 65385 ->
           [d EXCEPT !.bgpd = PaletteSet(d.bgpd, d.bgpi.i, v),
                     !.bgpi.i = IF d.bgpi.auto_inc THEN And8(d.bgpi.i + 1, 63)
                                ELSE d.bgpi.i]
      [] a = 65392 -> WramSet(d, a, v)
      [] a \in 65184 .. 65279 -> d

\* the work-RAM addresses written: each kept offset in 0xc000.., 0xd000.. and in
\* their echoes 0xe000.., 0xf000..
WramAddrs == {p + o : p \in {49152, 53248, 57344, 61440}, o \in WramOffsets}

\* the bus writes explored: two byte values at each work-RAM address, bank
\* selections 0 (read as 1), 2 and 0xff (7), and OAM DMA from the pages 0xc0, 0xd0,
\* 0xe0, 0xf0 and 0xf2
DevWrites ==
    (WramAddrs \X {90, 165}) \cup ({65392} \X {0, 2, 255})
        \cup ({65350} \X {192, 208, 224, 240, 242})

\* an instruction stores v at a: MMUnit::set
BusWrite ==
    /\ ~panicked
    /\ steps < MaxBusSteps
    /\ \E w \in DevWrites :
         LET d == DevSet(dev, w[1], w[2])
         IN  /\ dev' = d
             /\ panicked' = d.panic
             /\ last' = Op("bus_write", w[1], w[2], 0)
    /\ steps' = steps + 1
    /\ UNCHANGED <<apu, cpu, hram, intf, inte, timer, gpu, dma, speed, emu, win, cart>>

\* number of operations explored for the accesses the bus ignores
MaxQuietSteps == 3

\* the reads of unmapped I/O explored: 0xff03, 0xff4c and 0xff7f
IoReads == {65283, 65356, 65407}

\* the writes to the unused area explored: both ends of 0xfea0..=0xfeff
UnusedWrites == {<<65184, 90>>, <<65279, 165>>}

\* an instruction loads from an unmapped I/O address: MMUnit::get, which takes
\* &self
BusRead ==
    /\ ~panicked
    /\ steps < MaxQuietSteps
    /\ \E a \in IoReads : last' = Op("bus_read", a, DevGet(dev, a), 0)
    /\ steps' = steps + 1
    /\ UNCHANGED <<apu, cpu, hram, intf, inte, timer, gpu, dma, speed, emu, win, dev, cart,
                   panicked>>

\* an instruction stores v in the unused area 0xfea0..=0xfeff: MMUnit::set
UnusedWrite ==
    /\ ~panicked
    /\ steps < MaxQuietSteps
    /\ \E w \in UnusedWrites :
         LET d == DevSet(dev, w[1], w[2])
         IN  /\ dev' = d
             /\ panicked' = d.panic
             /\ last' = Op("unused_write", w[1], w[2], 0)
    /\ steps' = steps + 1
    /\ UNCHANGED <<apu, cpu, hram, intf, inte, timer, gpu, dma, speed, emu, win, cart>>

\* number of palette register writes explored from power-up
MaxPalSteps == 4

\* the palette writes explored: the index register set to 0 with auto-increment,
\* to 0x3f with it and to 1 without it, and four data bytes
PalWrites == ({65384} \X {128, 191, 1}) \cup ({65385} \X {0, 31, 224, 255})

\* an instruction stores v at 0xff68 or 0xff69: MMUnit::set
PalWrite ==
    /\ ~panicked
    /\ steps < MaxPalSteps
    /\ \E w \in PalWrites :
         LET d == DevSet(dev, w[1], w[2])
             log == CASE w[1] = 65384 /\ w[2] = 128 -> <<>>
                      [] w[1] = 65384 /\ w[2] # 128 -> "none"
                      [] w[1] = 65385 /\ dev.bgpd_log = "none" -> "none"
                      [] OTHER -> Append(dev.bgpd_log, w[2])
         IN  /\ dev' = [d EXCEPT !.bgpd_log = log]
             /\ last' = OpR("pal_write", w[1], w[2], 0, dev.bgpi.i)
    /\ steps' = steps + 1
    /\ UNCHANGED <<apu, cpu, hram, intf, inte, timer, gpu, dma, speed, emu, win, cart,
                   panicked>>

\* number of joypad operations explored from power-up
MaxJoySteps == 4

\* KEY_MAPS: <<GbBtn, JoypadKey>> as their u8 values
KeyMaps == <<<<4, 1>>, <<2, 4>>, <<1, 2>>, <<8, 8>>,
             <<16, 16>>, <<32, 32>>, <<128, 64>>, <<64, 128>>>>

\* Joypad::keydown on s = [d, intf, n]; n counts the calls of Intf::hi
Keydown(s, key) ==
    [s EXCEPT !.d.signals = And8(@, Not8(key)), !.intf = Or8(@, 16), !.n = @ + 1]

\* Joypad::keyup
Keyup(s, key) == [s EXCEPT !.d.signals = Or8(@, key)]

\* the `for (rk, vk) in KEY_MAPS` loop of Emulator::run, from entry i on
RECURSIVE PollLoop(_, _)
PollLoop(s, i) ==
    IF i > Len(KeyMaps) THEN s
    ELSE PollLoop(IF And8(s.d.pressed_key, KeyMaps[i][1]) # 0
                  THEN Keydown(s, KeyMaps[i][2])
                  ELSE Keyup(s, KeyMaps[i][2]), i + 1)

\* Emulator::press_button and Emulator::release_button, called by the host for the
\* buttons RIGHT and A
HostButton ==
    /\ steps < MaxJoySteps
    /\ \E btn \in {4, 16}, press \in BOOLEAN :
         /\ dev' = [dev EXCEPT !.pressed_key =
                        IF press THEN Or8(@, btn) ELSE And8(@, Not8(btn))]
         /\ last' = Op(IF press THEN "press_button" ELSE "release_button", 0, btn, 0)
    /\ steps' = steps + 1
    /\ UNCHANGED <<apu, cpu, hram, intf, inte, timer, gpu, dma, speed, emu, win, cart,
                   panicked>>

\* the input poll of Emulator::run, once the frame clock has flipped; the step
\* records the signals before the poll and the number of interrupt requests
PollKeys ==
    /\ steps < MaxJoySteps
    /\ LET s == PollLoop([d |-> dev, intf |-> intf, n |-> 0], 1)
       IN  /\ dev' = s.d
           /\ intf' = s.intf
           /\ last' = OpR("poll", 0, 0, 0, [before |-> dev.signals, raised |-> s.n])
    /\ steps' = steps + 1
    /\ UNCHANGED <<apu, cpu, hram, inte, timer, gpu, dma, speed, emu, win, cart, panicked>>

\* an instruction stores v at 0xff00 (Joypad::set) or clears the interrupt request
\* register 0xff0f: MMUnit::set
JoyWrite ==
    /\ steps < MaxJoySteps
    /\ \E w \in ({65280} \X {16, 32, 48, 47}) \cup {<<65295, 0>>} :
         /\ IF w[1] = 65295
            THEN intf' = w[2] /\ dev' = dev
            ELSE intf' = intf /\ dev' = DevSet(dev, w[1], w[2])
         /\ last' = Op("joy_write", w[1], w[2], 0)
    /\ steps' = steps + 1
    /\ UNCHANGED <<apu, cpu, hram, inte, timer, gpu, dma, speed, emu, win, cart, panicked>>

(***************************************************************************)
(* The cartridge: header validation and the MBC1, MBC3 and MBC5 mappers    *)
(* (core/cartridge.rs)                                                     *)
(***************************************************************************)
\* number of cartridge operations explored: the power-up and the writes after it
MaxCartSteps == 4

\* number of header bytes kept besides the cartridge type, the ROM size and the
\* RAM size (the title and the other bytes of 0x0134..0x014c)
TitleLen == 1

\* number of logo bytes kept (the code's 48)
LogoLen == 2

\* NINTENDO_LOGO, its first bytes
NintendoLogo == <<206, 237, 102, 102, 204, 13>>

\* the bytes of 0x0134..0x014c, in address order: the title, then the cartridge
\* type (0x0147), the ROM size (0x0148) and the RAM size (0x0149)
Header(rom) == rom.title \o <<rom.type, rom.rom_size, rom.ram_size>>

\* the loop of ensure_header_checksum with wrapping_sub omitting the `- 1`
RECURSIVE HeaderChecksumNoDec(_)
HeaderChecksumNoDec(h) ==
    IF h = <<>> THEN 0
    ELSE (HeaderChecksumNoDec(SubSeq(h, 1, Len(h) - 1)) + 512 - h[Len(h)]) % 256

\* the loop of ensure_header_checksum: v = v.wrapping_sub(byte).wrapping_sub(1)
RECURSIVE HeaderChecksum(_)
HeaderChecksum(h) ==
    IF h = <<>> THEN 0
    ELSE (HeaderChecksum(SubSeq(h, 1, Len(h) - 1)) + 511 - h[Len(h)]) % 256

\* ram_size; -1 stands for the panic! arm
RamSize(b) ==
    CASE b = 0 -> 0 [] b = 1 -> 2048 [] b = 2 -> 8192 [] b = 3 -> 32768
      [] b = 4 -> 131072 [] b = 5 -> 65536 [] OTHER -> -1

\* the indices of the cartridge RAM kept: the first byte of each 8 KiB bank
RamCells(len) == {i \in {8192 * b : b \in 0 .. 15} : i < len}

\* cartridge::power_up for the types 0x00 (ROM only), 0x02 (MBC1+RAM), 0x03
\* (MBC1+RAM+BATTERY), 0x13 (MBC3+RAM+BATTERY) and 0x1b (MBC5+RAM+BATTERY), with no
\* save file on disk yet (file holds the bytes of the save file, none so far):
\* the cartridge, or panic for a rejected image
CartridgePowerUp(rom) ==
    LET kind == CASE rom.type = 0 -> "RomOnly"
                  [] rom.type \in {2, 3} -> "Mbc1"
                  [] rom.type = 19 -> "Mbc3"
                  [] rom.type = 27 -> "Mbc5"
                  [] OTHER -> "none"
        len  == IF kind = "RomOnly" THEN 0 ELSE RamSize(rom.ram_size)
        c    == [kind |-> kind, rom |-> rom, ram_len |-> len,
                 ram |-> [i \in RamCells(len) |-> 0],
                 bank_mode |-> "Rom", bank |-> 1, rom_bank |-> 1, ram_bank |-> 0,
                 ram_enable |-> FALSE, save_path |-> rom.type \in {3, 19, 27},
                 file |-> [i \in {} |-> 0], panic |-> FALSE,
                 rtc |-> [r \in 8 .. 12 |-> 0],  \* RealTimeClock s, m, h, dl, dh
                 clock |-> 0,    \* the host's clock: seconds since RealTimeClock.zero
                 latch |-> 255]  \* history: the last byte written to 0x6000..=0x7fff
    IN  IF \/ kind = "none"
           \/ len < 0
           \/ rom.sum # HeaderChecksum(Header(rom))
           \/ rom.logo # SubSeq(NintendoLogo, 1, LogoLen)
        THEN [kind |-> "none", panic |-> TRUE]
        ELSE c

\* Stable::save of Mbc1, Mbc3 and Mbc5 (the file system accepts the write)
CartSave(c) == IF ~c.save_path THEN c ELSE [c EXCEPT !.file = c.ram]

\* the RAM arm (0xa000..=0xbfff) of Mbc1::set, Mbc3::set and Mbc5::set for RAM
\* bank n: the Vec index panics past the end of the RAM
CartRamSet(c, n, a, v) ==
    LET i == n * 8192 + a - 40960
    IN  IF ~c.ram_enable THEN c
        ELSE IF i >= c.ram_len THEN [c EXCEPT !.panic = TRUE]
        ELSE IF i \in DOMAIN c.ram THEN [c EXCEPT !.ram[i] = v] ELSE c

\* Mbc1::rom_bank
Mbc1RomBank(c) == IF c.bank_mode = "Ram" THEN And8(c.bank, 31) ELSE And8(c.bank, 127)

\* Mbc1::set with the `if n == 0x00` substitution removed
Mbc1SetNoSubst(c, a, v) ==
    CASE a \in 40960 .. 49151 ->
           CartRamSet(c, IF c.bank_mode = "Ram" THEN And8(c.bank, 96) \div 32 ELSE 0, a, v)
      [] a \in 0 .. 8191 ->
           LET c1 == [c EXCEPT !.ram_enable = And8(v, 15) = 10]
           IN  IF ~c1.ram_enable THEN CartSave(c1) ELSE c1
      [] a \in 8192 .. 16383 ->
           [c EXCEPT !.bank = Or8(And8(c.bank, 224), And8(v, 31))]
      [] a \in 16384 .. 24575 ->
           [c EXCEPT !.bank = Or8(And8(c.bank, 159), And8(v, 3) * 32)]
      [] a \in 24576 .. 32767 ->
           CASE v = 0 -> [c EXCEPT !.bank_mode = "Rom"]
             [] v = 1 -> [c EXCEPT !.bank_mode = "Ram"]
             [] OTHER -> [c EXCEPT !.panic = TRUE]
      [] OTHER -> c

\* Mbc1::set, with Mbc1::ram_bank
Mbc1Set(c, a, v) ==
    CASE a \in 40960 .. 49151 ->
           CartRamSet(c, IF c.bank_mode = "Ram" THEN And8(c.bank, 96) \div 32 ELSE 0, a, v)
      [] a \in 0 .. 8191 ->
           LET c1 == [c EXCEPT !.ram_enable = And8(v, 15) = 10]
           IN  IF ~c1.ram_enable THEN CartSave(c1) ELSE c1
      [] a \in 8192 .. 16383 ->
           LET n == IF And8(v, 31) = 0 THEN 1 ELSE And8(v, 31)
           IN  [c EXCEPT !.bank = Or8(And8(c.bank, 224), n)]
      [] a \in 16384 .. 24575 ->
           [c EXCEPT !.bank = Or8(And8(c.bank, 159), And8(v, 3) * 32)]
      [] a \in 24576 .. 32767 ->
           CASE v = 0 -> [c EXCEPT !.bank_mode = "Rom"]
             [] v = 1 -> [c EXCEPT !.bank_mode = "Ram"]
             [] OTHER -> [c EXCEPT !.panic = TRUE]
      [] OTHER -> c

\* RealTimeClock::tick, d seconds after RealTimeClock.zero
RtcTick(rtc, d) ==
    LET days == (d \div 3600) \div 24
    IN  [rtc EXCEPT ![8] = d % 60,
                    ![9] = (d \div 60) % 60,
                    ![10] = (d \div 3600) % 24,
                    ![11] = days % 256,
                    ![12] = IF days <= 255 THEN @
                            ELSE IF days <= 511 THEN Or8(@, 1)
                            ELSE Or8(@, 129)]

\* Mbc3::set, with RealTimeClock::set for the RAM banks above 3 (its `_` arm
\* panics)
Mbc3Set(c, a, b) ==
    CASE a \in 40960 .. 49151 ->
           IF c.ram_bank <= 3 THEN CartRamSet(c, c.ram_bank, a, b)
           ELSE IF ~c.ram_enable THEN c
           ELSE IF c.ram_bank \in 8 .. 12 THEN [c EXCEPT !.rtc[c.ram_bank] = b]
           ELSE [c EXCEPT !.panic = TRUE]
      [] a \in 0 .. 8191 -> [c EXCEPT !.ram_enable = And8(b, 15) = 10]
      [] a \in 8192 .. 16383 ->
           LET v == IF b = 0 THEN 1 ELSE b
           IN  [c EXCEPT !.rom_bank = And8(v, 127)]
      [] a \in 16384 .. 24575 -> [c EXCEPT !.ram_bank = And8(b, 15)]
      [] a \in 24576 .. 32767 ->
           IF Bit(b, 0) = 1
           THEN [c EXCEPT !.rtc = RtcTick(c.rtc, c.clock), !.latch = b]
           ELSE [c EXCEPT !.latch = b]
      [] OTHER -> c

\* Mbc5::set
Mbc5Set(c, a, b) ==
    CASE a \in 40960 .. 49151 -> CartRamSet(c, c.ram_bank, a, b)
      [] a \in 0 .. 8191 -> [c EXCEPT !.ram_enable = And8(b, 15) = 10]
      [] a \in 8192 .. 12287 -> [c EXCEPT !.rom_bank = (c.rom_bank \div 256) * 256 + b]
      [] a \in 12288 .. 16383 ->
           [c EXCEPT !.rom_bank = (c.rom_bank % 256) + And8(b, 1) * 256]
      [] a \in 16384 .. 24575 -> [c EXCEPT !.ram_bank = And8(b, 15)]
      [] OTHER -> c

\* MMUnit::set for 0x0000..=0x7fff and 0xa000..=0xbfff: the set of the mapper the
\* cartridge was created with (RomOnly::set panics)
CartSet(c, a, v) ==
    CASE c.kind = "RomOnly" -> [c EXCEPT !.panic = TRUE]
      [] c.kind = "Mbc1" -> Mbc1Set(c, a, v)
      [] c.kind = "Mbc3" -> Mbc3Set(c, a, v)
      [] c.kind = "Mbc5" -> Mbc5Set(c, a, v)

\* the ROM bank the 0x4000..=0x7fff arm of Mbc1::get, Mbc3::get and Mbc5::get
\* indexes the image with
RomBankMapped(c) == IF c.kind = "Mbc1" THEN Mbc1RomBank(c) ELSE c.rom_bank

\* the ROM images offered to cartridge::power_up
RomImages ==
    [type : {0, 2, 3, 19, 27}, rom_size : {1}, ram_size : {2, 3},
     title : [1 .. TitleLen -> {0, 255}],
     logo : [1 .. LogoLen -> {206, 237}], sum : 0 .. 255]

\* the writes to the cartridge explored
CartWrites ==
    {<<0, 10>>, <<0, 0>>, <<8192, 0>>, <<8192, 32>>, <<8192, 128>>, <<8192, 5>>,
     <<16384, 1>>, <<16384, 3>>, <<24576, 0>>, <<24576, 1>>, <<40960, 90>>}

\* MotherBoard::power_up reaching cartridge::power_up with the image at rom_path
CartPowerUp ==
    /\ ~panicked
    /\ cart.kind = "none"
    /\ steps < MaxCartSteps
    /\ \E rom \in RomImages :
         LET c == CartridgePowerUp(rom)
         IN  /\ cart' = c
             /\ panicked' = c.panic
             /\ last' = OpR("cart_power_up", 0, 0, 0, rom)
    /\ steps' = steps + 1
    /\ UNCHANGED <<apu, cpu, hram, intf, inte, timer, gpu, dma, speed, emu, win, dev>>

\* an instruction of the run loop stores v at a cartridge address
CartWrite ==
    /\ ~panicked
    /\ cart.kind # "none"
    /\ steps < MaxCartSteps
    /\ \E w \in CartWrites :
         LET c == CartSet(cart, w[1], w[2])
         IN  /\ cart' = c
             /\ panicked' = c.panic
             /\ last' = Op("cart_write", w[1], w[2], 0)
    /\ steps' = steps + 1
    /\ UNCHANGED <<apu, cpu, hram, intf, inte, timer, gpu, dma, speed, emu, win, dev>>

\* the seconds the host's clock is let advance by between two operations: one
\* second, an hour a minute and a second, and 256 days
ClockJumps == {1, 3661, 22118400}

\* MotherBoard::power_up with an MBC3 image
Mbc3PowerUp == CartPowerUp /\ cart'.kind = "Mbc3"

\* the host's wall clock moves on while the cartridge is in use
ClockAdvance ==
    /\ ~panicked
    /\ cart.kind = "Mbc3"
    /\ steps < MaxCartSteps
    /\ \E j \in ClockJumps : cart' = [cart EXCEPT !.clock = @ + j]
    /\ last' = Op("clock", 0, 0, 0)
    /\ steps' = steps + 1
    /\ UNCHANGED <<apu, cpu, hram, intf, inte, timer, gpu, dma, speed, emu, win, dev,
                   panicked>>

(***************************************************************************)
(* Audio unit (core/apu.rs): the register file behind NR52 and the stereo  *)
(* sample queue shared with the host's audio callback.  MMUnit::power_up   *)
(* leaves MMUnit.apu empty; initialize_audio installs the unit.  In this   *)
(* tree the calls of initialize_audio (emulator.rs) and of APU::next       *)
(* (MMUnit::next) are commented out: the actions below are the unit's own  *)
(* operations, as a build with audio would drive them.                     *)
(***************************************************************************)
\* number of operations on the audio unit explored from power-up
MaxApuSteps == 9

\* number of writes to the noise channel explored from power-up
MaxNoiseSteps == 6

\* APU.sample_rate, the samples per second of the host's output format
SampleRate == 3

\* the length of the buffers buf_l and buf_r that APU::mix hands to APU::play
BufLen == 2

\* NR10..NR52: five registers for each of Square1, Square2, Wave and Noise, then
\* nrx0..nrx2 of the mixer
ApuRegs == 65296 .. 65318

\* the wave table of ChannelWave, 0xff30..0xff3f
WaveAddrs == 65328 .. 65343

\* APU.timer.period, the cycles of one frame of the 512 Hz clock, which APU::next
\* hands to the channels
FramePeriod == 8192

\* ChannelNoise::power_up: the channel clock (period, n), the volume envelope
\* (its clock ve_period, ve_n and its volume) and LFSR.seed
NoisePowerUp ==
    [period |-> 4096, n |-> 0, ve_period |-> 8, ve_n |-> 0, volume |-> 0, seed |-> 1]

\* APU::power_up; lc holds LengthCounter.n of the four channels and buffer the
\* length of APU.buffer
ApuPowerUp ==
    [present |-> TRUE, nr |-> [a \in ApuRegs |-> 0], wave_table |-> [a \in WaveAddrs |-> 0],
     lc |-> [ch \in 1 .. 4 |-> 0], buffer |-> 0,
     fs |-> 0,       \* FrameSequencer.step
     noise |-> NoisePowerUp]

\* ChannelNoise::update_freq for the value v of NR43: the divisor of the code in
\* bits 0..2, shifted by bits 4..7
NoisePeriod(v) ==
    LET code == v % 8
        d == IF code = 0 THEN 0 ELSE (code + 1) * 16
    IN  d * 2 ^ (v \div 16)

\* the set of ChannelNoise for NR43 and NR44: update_freq, and on a trigger
\* VolumeEnvelope::reload and LFSR::reload (LengthCounter::reload is part of
\* APU::set below); nr42 is the NR42 held
NoiseSet(q, a, v, nr42) ==
    CASE a = 65314 -> [q EXCEPT !.period = NoisePeriod(v)]
      [] a = 65315 /\ Bit(v, 7) = 1 ->
           [q EXCEPT !.ve_period = IF nr42 % 8 = 0 THEN 8 ELSE nr42 % 8,
                     !.volume = nr42 \div 16,
                     !.seed = 1]
      [] OTHER -> q

\* an APU::set without the `a != 0xff26 && !get_power()` return
ApuSetNoGate(p, a, v) ==
    LET ch == (a - 65296) \div 5 + 1
    IN  CASE a \in {65297, 65302, 65312} ->
               [p EXCEPT !.nr[a] = v, !.lc[ch] = 64 - And8(v, 63)]
          [] a = 65307 -> [p EXCEPT !.nr[a] = v, !.lc[ch] = 256 - v]
          [] a \in {65300, 65305, 65310, 65315} ->
               [p EXCEPT !.nr[a] = v,
                         !.lc[ch] = IF Bit(v, 7) = 1 /\ p.lc[ch] = 0
                                    THEN (IF ch = 3 THEN 256 ELSE 64)
                                    ELSE p.lc[ch],
                         !.noise = NoiseSet(@, a, v, p.nr[65313])]
          [] a \in (65296 .. 65317)
                   \ {65297, 65302, 65307, 65312, 65300, 65305, 65310, 65315} ->
               [p EXCEPT !.nr[a] = v, !.noise = NoiseSet(@, a, v, p.nr[65313])]
          [] a = 65318 ->
               IF Bit(v, 7) = 1 THEN [p EXCEPT !.nr[a] = v]
               ELSE [p EXCEPT !.nr = [x \in ApuRegs |-> 0]]
          [] a \in 65319 .. 65327 -> p
          [] a \in WaveAddrs -> [p EXCEPT !.wave_table[a] = v]

\* APU::set, with the set of ChannelSquare, ChannelWave and ChannelNoise as far
\* as the registers, the wave table, the length counters and the noise channel
\* go (nrx1 loads the counter, a trigger written to nrx4 reloads an expired one;
\* the frequency sweep and the generators of the square and wave channels are
\* not part of the state kept); ch is the channel a register belongs to
ApuSet(p, a, v) ==
    LET ch == (a - 65296) \div 5 + 1
    IN  IF a # 65318 /\ Bit(p.nr[65318], 7) = 0 THEN p
        ELSE
        CASE a \in {65297, 65302, 65312} ->
               [p EXCEPT !.nr[a] = v, !.lc[ch] = 64 - And8(v, 63)]
          [] a = 65307 -> [p EXCEPT !.nr[a] = v, !.lc[ch] = 256 - v]
          [] a \in {65300, 65305, 65310, 65315} ->
               [p EXCEPT !.nr[a] = v,
                         !.lc[ch] = IF Bit(v, 7) = 1 /\ p.lc[ch] = 0
                                    THEN (IF ch = 3 THEN 256 ELSE 64)
                                    ELSE p.lc[ch],
                         !.noise = NoiseSet(@, a, v, p.nr[65313])]
          [] a \in (65296 .. 65317)
                   \ {65297, 65302, 65307, 65312, 65300, 65305, 65310, 65315} ->
               [p EXCEPT !.nr[a] = v, !.noise = NoiseSet(@, a, v, p.nr[65313])]
          [] a = 65318 ->
               IF Bit(v, 7) = 1 THEN [p EXCEPT !.nr[a] = v]
               ELSE [p EXCEPT !.nr = [x \in ApuRegs |-> 0]]
          [] a \in 65319 .. 65327 -> p
          [] a \in WaveAddrs -> [p EXCEPT !.wave_table[a] = v]

\* APU::play: the loop over the k samples left of the buffer, n samples queued
RECURSIVE Play(_, _)
Play(n, k) ==
    IF k = 0 THEN n
    ELSE IF n > SampleRate THEN n
    ELSE Play(n + 1, k - 1)

\* the writes to the audio registers explored: NR52 on and off, NR11, NR14 with
\* the trigger and length-enable bits, NR34 with the trigger bit, NR50, the
\* unused 0xff27 and both ends of the wave table
ApuWrites ==
    {<<65318, 128>>, <<65318, 0>>, <<65297, 129>>, <<65300, 192>>, <<65310, 128>>,
     <<65316, 119>>, <<65319, 1>>, <<65328, 171>>, <<65343, 205>>}

\* initialize_audio: APU::power_up installed in MMUnit.apu
InitializeAudio ==
    /\ ~panicked
    /\ ~apu.present
    /\ steps < MaxApuSteps
    /\ apu' = ApuPowerUp
    /\ last' = Op("initialize_audio", 0, 0, 0)
    /\ steps' = steps + 1
    /\ UNCHANGED <<cpu, hram, intf, inte, timer, gpu, dma, speed, emu, win, dev, cart,
                   panicked>>

\* an instruction stores v at an address in 0xff10..0xff3f: the audio arm of
\* MMUnit::set, APU::set when the unit is installed
ApuWrite ==
    /\ ~panicked
    /\ steps < MaxApuSteps
    /\ \E w \in ApuWrites :
         /\ apu' = IF apu.present THEN ApuSet(apu, w[1], w[2]) ELSE apu
         /\ last' = Op("apu_write", w[1], w[2], 0)
    /\ steps' = steps + 1
    /\ UNCHANGED <<cpu, hram, intf, inte, timer, gpu, dma, speed, emu, win, dev, cart,
                   panicked>>

\* LengthCounter::next of channel ch, whose nrx4 holds the length-enable bit and
\* the trigger bit
LcNext(p, ch) ==
    LET a4 == 65300 + 5 * (ch - 1)
    IN  IF Bit(p.nr[a4], 6) = 0 \/ p.lc[ch] = 0 THEN p
        ELSE [p EXCEPT !.lc[ch] = @ - 1,
                       !.nr[a4] = IF p.lc[ch] = 1 THEN And8(@, 127) ELSE @]

\* LFSR::next on the seed s, width the width-mode bit of NR43
LfsrNext(s, width) ==
    LET shifted == s \div 2
        xor == ((shifted % 2) + (s % 2)) % 2
        top == shifted + xor * 32768
    IN  IF width THEN top - ((top \div 64) % 2) * 64 + xor * 64 ELSE top

\* the k iterations of the loop of ChannelNoise::next, each of which steps the
\* LFSR when the channel is triggered and its volume is not 0
RECURSIVE LfsrRun(_, _, _)
LfsrRun(s, width, k) ==
    IF k = 0 THEN s ELSE LfsrRun(LfsrNext(s, width), width, k - 1)

\* ChannelNoise::next for cycles cycles, with Clock::next of the channel clock
\* (applied only where the period is not 0: Clock::next divides by it)
NoiseNext(p, cycles) ==
    LET q == p.noise
        total == q.n + cycles
        k == total \div q.period
        live == Bit(p.nr[65315], 7) = 1 /\ q.volume # 0
    IN  [p EXCEPT !.noise.n = total % q.period,
                  !.noise.seed = IF live THEN LfsrRun(@, Bit(p.nr[65314], 3) = 1, k)
                                 ELSE @]

\* VolumeEnvelope::next of the noise channel
VeNext(p) ==
    LET q == p.noise
        nr42 == p.nr[65313]
        n1 == q.ve_n + 1
        v == IF Bit(nr42, 3) = 1 THEN (q.volume + 1) % 256 ELSE (q.volume + 255) % 256
    IN  IF nr42 % 8 = 0 THEN p
        ELSE IF n1 \div q.ve_period = 0 THEN [p EXCEPT !.noise.ve_n = n1]
        ELSE [p EXCEPT !.noise.ve_n = n1 % q.ve_period,
                       !.noise.volume = IF v <= 15 THEN v ELSE @]

\* one iteration of the loop of APU::next: ChannelNoise::next,
\* FrameSequencer::next, the length counters and the volume envelope on the
\* steps the code names, then APU::mix handing one pair of buffers to APU::play
\* under the lock of the queue (the generators of the square and wave channels
\* and the frequency sweep are not part of the state kept)
ApuFrame(p) ==
    LET step == (p.fs + 1) % 8
        p0 == NoiseNext(p, FramePeriod)
        p1 == [p0 EXCEPT !.fs = step]
        p2 == IF step \in {0, 2, 4} THEN LcNext(LcNext(LcNext(LcNext(p1, 1), 2), 3), 4)
              ELSE p1
        p3 == IF step = 7 THEN VeNext(p2) ELSE p2
    IN  [p3 EXCEPT !.buffer = Play(p3.buffer, BufLen)]

\* APU::next on a tick of the 512 Hz clock, which returns at once while the
\* power bit is clear; with a noise period of 0 the division of Clock::next
\* panics
ApuMix ==
    /\ ~panicked
    /\ apu.present
    /\ Bit(apu.nr[65318], 7) = 1
    /\ steps < MaxApuSteps
    /\ IF apu.noise.period = 0
       THEN /\ panicked' = TRUE
            /\ apu' = apu
       ELSE /\ panicked' = panicked
            /\ apu' = ApuFrame(apu)
    /\ last' = Op("mix", 0, apu.buffer, 0)
    /\ steps' = steps + 1
    /\ UNCHANGED <<cpu, hram, intf, inte, timer, gpu, dma, speed, emu, win, dev, cart>>

\* the writes to the noise channel explored: NR52 on, NR42 with volume 15 and
\* no envelope and with volume 1 and a falling envelope of period 1, NR43 with
\* the divisor code 0 (alone, with the width bit, with a shift), with the code 1
\* shifted to a quarter of a frame and the code 7 shifted to one frame (each
\* with and without the width bit), NR44 with the trigger bit
NoiseWrites ==
    {<<65318, 128>>, <<65313, 240>>, <<65313, 17>>, <<65314, 0>>, <<65314, 8>>,
     <<65314, 16>>, <<65314, 97>>, <<65314, 105>>, <<65314, 103>>, <<65314, 111>>,
     <<65315, 128>>}

\* an instruction stores v at a register of the noise channel: APU::set
NoiseWrite ==
    /\ ~panicked
    /\ apu.present
    /\ steps < MaxNoiseSteps
    /\ \E w \in NoiseWrites :
         /\ apu' = ApuSet(apu, w[1], w[2])
         /\ last' = Op("noise_write", w[1], w[2], 0)
    /\ steps' = steps + 1
    /\ UNCHANGED <<cpu, hram, intf, inte, timer, gpu, dma, speed, emu, win, dev, cart,
                   panicked>>

\* the stream callback of initialize_audio, for an output buffer of k frames:
\* it drains min(k, len) samples under the lock of the queue
AudioCallback ==
    /\ ~panicked
    /\ apu.present
    /\ steps < MaxApuSteps
    /\ \E k \in 1 .. BufLen :
         /\ apu' = [apu EXCEPT !.buffer = @ - (IF k < @ THEN k ELSE @)]
         /\ last' = Op("callback", k, apu.buffer, 0)
    /\ steps' = steps + 1
    /\ UNCHANGED <<cpu, hram, intf, inte, timer, gpu, dma, speed, emu, win, dev, cart,
                   panicked>>

(***************************************************************************)
(* Specifications                                                          *)
(***************************************************************************)
\* the state after MMUnit::power_up and Emulator::create
InitRest ==
    /\ hram = [a \in HramWindow |-> 0]
    /\ intf = 0
    /\ inte = 0
    /\ timer = TimerPowerUp
    /\ gpu = GpuPowerUp
    /\ dma = DmaPowerUp
    /\ speed = SpeedPowerUp
    /\ emu = EmuCreate
    /\ win = WinNew
    /\ dev = DevPowerUp
    /\ cart = [kind |-> "none"]
    /\ apu = [ApuPowerUp EXCEPT !.present = FALSE]
    /\ last = NoOp
    /\ steps = 0
    /\ panicked = FALSE

\* power-up with a cartridge of either terminal kind
Init ==
    /\ cpu \in RegPowerUp
    /\ InitRest

\* power-up with a GB cartridge (a = 0x01)
InitGb ==
    /\ cpu \in {r \in RegPowerUp : r.a = 1}
    /\ InitRest

\* the CPU stepping, with peripherals raising interrupt requests
NextCpu == CpuNext \/ RaiseInt

SpecCpu == Init /\ [][NextCpu]_vars

\* the CPU alone, fed the control opcodes
SpecCtl == Init /\ [][CpuNextCtl]_vars

\* the CPU alone, running the decimal addition
SpecBcd == Init /\ [][CpuNextBcd]_vars

\* the CPU moving data between registers, flags and the stack
NextAlu == CpuNextAlu

SpecAlu == Init /\ [][NextAlu]_vars

\* the timer driven directly
NextTimer == TimerNext \/ TimerSet

SpecTimer == InitGb /\ [][NextTimer]_vars

\* the pixel pipeline driven directly
NextPpu == GpuNext \/ GpuSet

SpecPpu == InitGb /\ [][NextPpu]_vars

\* the motherboard loop: an instruction's bus write, then MMUnit::next
NextMmu == MbrdNextIdle \/ MbrdNextWrite \/ MbrdNextStop

SpecMmu == InitGb /\ [][NextMmu]_vars

\* the host's control calls against the emulation thread
NextEmu ==
    \/ RunEmulator \/ PauseEmulator \/ ResumeEmulator \/ ExitEmulator
    \/ EmuThread \/ RunParkSpurious

SpecEmu == InitGb /\ [][NextEmu]_vars

\* the host's control calls with a second run request; the first thread's check
\* and store of is_running stay one step (RunStart), the second thread's are two,
\* which lets the two threads' loads both come before either store
SpecRun == InitGb /\ [][NextEmu \/ RunEmulatorAgain \/ RunAgainCheck \/ RunAgainStore]_vars

\* the emulation thread is an OS thread: it keeps being scheduled while it can run
FairSpecEmu == SpecEmu /\ WF_vars(EmuThread)

\* the producer (emulation thread) against the consumer (host render thread)
NextWin ==
    \/ ProdAcquire \/ GetFreeBuffer \/ ProdRelease \/ ProdClear \/ ProdFill
    \/ AddRenderBuffer \/ ConsAcquire \/ GetRenderBuffer \/ ConsRelease

SpecWin == InitGb /\ [][NextWin]_vars

\* the bus writes to work RAM, OAM and the OAM DMA trigger
SpecBus == InitGb /\ [][BusWrite]_vars

\* the cartridge created from an image, then written by the running program
SpecCart == InitGb /\ [][CartPowerUp \/ CartWrite]_vars

\* the writes to the colour palette window
SpecPal == InitGb /\ [][PalWrite]_vars

\* the host's button calls, the run loop's input poll and the program's writes
SpecJoy == InitGb /\ [][HostButton \/ PollKeys \/ JoyWrite]_vars

\* an MBC3 cartridge with its real-time clock, the program's writes and the
\* host's clock
SpecRtc == InitGb /\ [][Mbc3PowerUp \/ CartWrite \/ ClockAdvance]_vars

\* the audio unit: its installation, the program's writes to its registers, the
\* mixer filling the sample queue and the host's callback draining it
SpecApu == InitGb /\ [][InitializeAudio \/ ApuWrite \/ ApuMix \/ AudioCallback]_vars

\* the accesses §7 lists as silently ignored: cartridge writes, reads of unmapped
\* I/O, writes to the unused area and writes to the audio registers
SpecQuiet ==
    InitGb /\ [][\/ steps < MaxQuietSteps /\ CartPowerUp
                 \/ steps < MaxQuietSteps /\ CartWrite
                 \/ BusRead
                 \/ UnusedWrite
                 \/ steps < MaxQuietSteps /\ InitializeAudio
                 \/ steps < MaxQuietSteps /\ ApuWrite]_vars

\* the sprites of GBRender::draw_sprites entering the list of drawn sprites
SpecSprite == InitGb /\ [][SpriteInsert]_vars

\* the renderer's tile lookup on the first lines of a frame, with the program's
\* writes to the scroll and window registers
SpecTile == InitGb /\ [][TileWrite \/ TileLine \/ TileLocate]_vars

\* the noise channel of the audio unit: the program's writes to NR41..NR44 and
\* NR52, and the frames of APU::next that step its clock and its LFSR
SpecNoise == InitGb /\ [][InitializeAudio \/ NoiseWrite \/ ApuMix]_vars

Next ==
    \/ NextCpu \/ NextAlu \/ NextTimer \/ NextPpu \/ NextMmu \/ NextEmu \/ NextWin
    \/ BusWrite \/ CartPowerUp \/ CartWrite \/ PalWrite
    \/ HostButton \/ PollKeys \/ JoyWrite
    \/ InitializeAudio \/ ApuWrite \/ ApuMix \/ AudioCallback \/ NoiseWrite
    \/ TileWrite \/ TileLocate \/ SpriteInsert
    \/ BusRead \/ UnusedWrite
    \/ ClockAdvance
    \/ RunEmulatorAgain \/ RunAgainCheck \/ RunAgainStore

\* every operation of the model, from power-up
Spec == Init /\ [][Next]_vars

(***************************************************************************)
(* Properties                                                              *)
(***************************************************************************)
\* C1: whenever the CPU steps with the master enable set and some interrupt both
\* requested and enabled, it services the lowest-numbered bit of IF AND IE: that
\* bit of IF and no other is cleared, the master enable is cleared, PC is pushed,
\* PC becomes 0x40 + 8 * index, no opcode runs and 16 ticks are reported.
C1_ServicesLowestEnabled ==
    [][(last'.op \in CpuKinds /\ cpu.ei /\ And8(intf, inte) # 0)
        => LET n == TrailingZeros(And8(intf, inte))
           IN  /\ last'.op = "int"
               /\ last'.c = 16
               /\ intf' = And8(intf, Not8(2 ^ n))
               /\ ~cpu'.ei
               /\ cpu'.pc = 64 + 8 * n
               /\ cpu'.sp = cpu.sp - 2
               /\ hram'[cpu'.sp] = Lo(cpu.pc)
               /\ hram'[cpu'.sp + 1] = Hi8(cpu.pc)]_vars

\* C5: in every reachable CPU state the low nibble of the flag register is zero.
C5_FLowNibbleZero == cpu.f % 16 = 0

\* POP AF has just loaded F from a stack byte whose low nibble was not zero
C5_PopAfDirtyByte ==
    /\ last.op = "ex" /\ last.a = 241
    /\ hram[cpu.sp - 2] % 16 # 0
    /\ cpu.f = hram[cpu.sp - 2] - (hram[cpu.sp - 2] % 16)

\* C6: with the timer enabled, a step of the timer increments TIMA once per elapsed
\* period; each overflow reloads TIMA from TMA and requests the timer interrupt
\* (IF bit 2), and without an overflow IF is untouched.  In particular with
\* TAC = 0b101 and TIMA = 0xFF, stepping 16 ticks leaves TIMA = TMA with bit 2 set.
C6_OverflowReloadsTma ==
    [][(last'.op = "timer_next" /\ Bit(timer.tac, 2) = 1)
        => LET k     == (timer.n + last'.c) \div timer.period
               first == 256 - timer.tima
           IN  /\ k < first => timer'.tima = timer.tima + k /\ intf' = intf
               /\ k >= first =>
                    /\ timer'.tima = timer.tma + ((k - first) % (256 - timer.tma))
                    /\ Bit(intf', 2) = 1
               /\ (timer.tac = 5 /\ timer.tima = 255 /\ last'.c = 16) =>
                    timer'.tima = timer.tma /\ Bit(intf', 2) = 1]_vars

\* the timer at TAC = 0b101 has just overflowed on a 16-tick step and reloaded 0x80
C6_ReloadedFromTma ==
    /\ last.op = "timer_next" /\ last.c = 16
    /\ timer.tac = 5 /\ timer.tma = 128 /\ timer.tima = 128
    /\ Bit(intf, 2) = 1

\* the position of the PPU in the frame, in dots
DotPos(g) == g.ly * 456 + g.dots

\* 154 lines of 456 dots
FrameDots == 154 * 456

\* C7: with the LCD enabled, a PPU step of c ticks advances the dot position by
\* exactly c (modulo the 70,224 dots of a frame), so that every line lasts 456 dots.
C7_DotsAdvanceByCycles ==
    [][\A c \in GpuCycles :
         (GpuNextWith(c) /\ LcdEnable(gpu)) => DotPos(gpu') = (DotPos(gpu) + c) % FrameDots]_vars

\* C8: with the LCD enabled, a PPU step requests the v-blank interrupt exactly once
\* when it takes LY into line 144, and not at all otherwise.
C8_VBlankOncePerEntry ==
    [][(last'.op = "gpu_next" /\ LcdEnable(gpu))
        => /\ last'.v = IF gpu.ly < 144 /\ gpu'.ly >= 144 THEN 1 ELSE 0
           /\ last'.v = 1 => Bit(intf', 0) = 1
           /\ last'.v = 0 => intf' = intf]_vars

\* a PPU step has just taken LY from 143 into 144 and requested the interrupt
C8_EnteredLine144 ==
    /\ last.op = "gpu_next" /\ last.v = 1
    /\ gpu.ly = 144 /\ gpu.mode = "VBlank"
    /\ Bit(intf, 0) = 1

\* C9: a write of n < 0x80 to 0xFF55 while no H-blank transfer is active makes the
\* advance that follows copy n + 1 blocks at 8 ticks each and clear the active
\* flag, after which 0xFF55 reads 0xFF.
C9_GeneralDmaCopiesAll ==
    [][(last'.op = "write" /\ last'.a = 65365 /\ last'.v < 128
        /\ ~(dma.active /\ dma.mode = "HDMA"))
        => /\ ~panicked'
           /\ Len(last'.r.copied) = last'.v + 1
           /\ last'.r.cost = 8 * (last'.v + 1)
           /\ ~dma'.active
           /\ DmaGet(dma', 65365) = 255]_vars

\* an H-blank transfer is active before and after the step
HdmaActive(d) == d.active /\ d.mode = "HDMA"

\* C10: while an H-blank transfer is active, an advance copies one block when the
\* PPU entered H-blank in the advance before it, and nothing otherwise, with the
\* LCD enabled or disabled.
C10_OneBlockPerHBlank ==
    [][(last.op \in {"idle", "write", "stop"} /\ last'.op \in {"idle", "write", "stop"}
        /\ HdmaActive(dma) /\ HdmaActive(dma') /\ ~panicked')
        => Len(last'.r.copied) = IF last.r.hb > 0 THEN 1 ELSE 0]_vars

\* the positions of the emulation thread inside the loop of Emulator::run
LoopPcs == {"loop", "pause_check", "park", "exec"}

\* C2: once exit() has been called with the loop running or paused, the loop
\* eventually terminates and the cartridge save is invoked before run returns.
C2_ExitTerminatesWithSave ==
    (emu.exitAt \in LoopPcs) ~> (emu.pc = "returned" /\ emu.saved)

\* C3: once the loop has observed the pause flag set, no instruction is executed
\* until resume() is called, whatever calls to resume() were made earlier.
C3_NoInstructionWhilePaused ==
    [][(emu.seenPause /\ emu'.seenPause) => emu'.instr = emu.instr]_vars

\* C4: the frame returned to the consumer is neither handed to the producer as a
\* free buffer nor overwritten before the consumer calls get_render_buffer again.
C4_RenderedFrameUntouched ==
    win.held # 0 =>
        /\ win.content[win.held] = win.snap
        /\ win.pbuf # win.held
        /\ ~InSeq(win.held, win.caches)

\* the consumer holds a produced frame while two frames are queued and the producer
\* is halfway through writing into a recycled buffer
C4_HeldWhileProducerWrites ==
    /\ win.held # 0 /\ win.snap \notin {<<>>, <<0, 0>>}
    /\ Len(win.buffers) = 2 /\ Front(win.buffers) = win.held
    /\ win.ppc = "fill" /\ Len(win.content[win.pbuf]) = 1
    /\ win.pbuf < win.allocated /\ win.allocated = 3


\* C11: a write to 0xFF55 with bit 7 clear while an H-blank transfer is active
\* clears the active flag, starts no general transfer (mode and remaining count
\* stay), the advance that follows copies no block, 0xFF55 then reads the
\* remaining count with bit 7 set, and no block is copied while the transfer
\* stays inactive.
C11_HdmaCancelled ==
    [][/\ (last'.op = "write" /\ last'.a = 65365 /\ Bit(last'.v, 7) = 0
           /\ HdmaActive(dma))
          => /\ ~dma'.active
             /\ dma'.mode = "HDMA"
             /\ dma'.remain = dma.remain
             /\ ~panicked'
             /\ last'.r.copied = <<>>
             /\ last'.r.cost = 0
             /\ DmaGet(dma', 65365) = Or8(dma.remain, 128)
       /\ (last'.op \in {"idle", "stop"} /\ ~dma.active)
          => last'.r.copied = <<>>]_vars

\* an H-blank transfer that has copied a block was cancelled by the last write
C11_CancelledAfterBlock ==
    /\ last.op = "write" /\ last.a = 65365 /\ Bit(last.v, 7) = 0
    /\ ~dma.active /\ dma.mode = "HDMA"
    /\ dma.remain = 127
    /\ DmaGet(dma, 65365) = 255

\* C12: for every v, a write of v to 0xFF46 completes, leaves in OAM the bytes
\* that were at (v << 8) + i, and changes nothing outside OAM.
C12_OamDmaCopies ==
    [][(last'.op = "bus_write" /\ last'.a = 65350)
        => /\ ~panicked'
           /\ \A i \in 0 .. OamLen - 1 :
                DevGet(dev', 65024 + i) = DevGet(dev, last'.v * 256 + i)
           /\ [dev' EXCEPT !.oam = dev.oam] = dev]_vars

\* C17: every address of the echo area reads what the address 0x2000 below it
\* reads, under every bank selection, and a byte written through either address
\* is read back through both.
C17_EchoMirrors ==
    /\ \A a \in WramAddrs :
         a >= 57344 => DevGet(dev, a) = DevGet(dev, a - 8192)
    /\ (last.op = "bus_write" /\ last.a \in WramAddrs)
       => /\ DevGet(dev, last.a) = last.v
          /\ DevGet(dev, IF last.a >= 57344 THEN last.a - 8192 ELSE last.a + 8192)
               = last.v

\* with page 7 selected, a byte written at 0xFDFF is read back at 0xDDFF while
\* 0xDDFF of page 1 still holds another byte
C17_EchoTopOfPage7 ==
    /\ last.op = "bus_write" /\ last.a = 65023 /\ last.v = 165
    /\ dev.wram_bank = 7
    /\ DevGet(dev, 56831) = 165
    /\ dev.wram[4096 + 3583] = 90

\* C13: on an MBC1 cartridge the ROM bank mapped at 0x4000..0x7FFF is never 0,
\* 0x20, 0x40 or 0x60; a write to 0x2000..0x3FFF whose low five bits are 0 selects
\* low bits 1, so with upper bits 01 in ROM-expand mode the bank is 0x21.
C13_Mbc1BankNeverZero ==
    cart.kind = "Mbc1" =>
        /\ RomBankMapped(cart) \notin {0, 32, 64, 96}
        /\ (last.op = "cart_write" /\ last.a \in 8192 .. 16383 /\ last.v % 32 = 0)
           => /\ cart.bank % 32 = 1
              /\ (cart.bank_mode = "Rom" /\ (cart.bank \div 32) % 4 = 1)
                 => RomBankMapped(cart) = 33

\* 0x20 was written to 0x2000 with upper bank bits 01 in ROM-expand mode
C13_Wrote20WithUpperBits01 ==
    /\ cart.kind = "Mbc1" /\ cart.bank_mode = "Rom"
    /\ last.op = "cart_write" /\ last.a = 8192 /\ last.v = 32
    /\ RomBankMapped(cart) = 33

\* C14: on an MBC3 cartridge, after a write of b to 0x2000..0x3FFF the ROM bank
\* mapped at 0x4000..0x7FFF is the low seven bits of b with 0 replaced by 1, and
\* the mapped bank is never 0.
C14_Mbc3BankLowSevenBits ==
    cart.kind = "Mbc3" =>
        /\ RomBankMapped(cart) # 0
        /\ (last.op = "cart_write" /\ last.a \in 8192 .. 16383)
           => RomBankMapped(cart) = IF last.v % 128 = 0 THEN 1 ELSE last.v % 128

\* C15: on an MBC1, MBC3 or MBC5 cartridge with a save path, after a write to
\* 0x0000..0x1FFF that clears RAM-enable the save file holds the current RAM.
C15_DisableRamPersists ==
    [][(last'.op = "cart_write" /\ last'.a \in 0 .. 8191
        /\ cart.kind \in {"Mbc1", "Mbc3", "Mbc5"} /\ cart.save_path
        /\ ~panicked' /\ ~cart'.ram_enable)
        => cart'.file = cart'.ram]_vars

\* the sum of the bytes of a header
RECURSIVE ByteSum(_)
ByteSum(h) == IF h = <<>> THEN 0 ELSE h[1] + ByteSum(Tail(h))

\* C16: cartridge creation aborts, returning no cartridge, for every image whose
\* checksum byte differs from minus the sum of (byte + 1) over the header, modulo
\* 256, and for every image whose logo differs from the reference; a cartridge
\* that reaches the run loop has passed both checks.
C16_BadHeaderRejected ==
    [][LET rom == last'.r
           bad == \/ rom.sum # (256 * Len(Header(rom)) - ByteSum(Header(rom))
                                  - Len(Header(rom))) % 256
                  \/ rom.logo # SubSeq(NintendoLogo, 1, LogoLen)
       IN  last'.op = "cart_power_up"
           => /\ bad => (panicked' /\ cart'.kind = "none")
              /\ cart'.kind # "none" => (~bad /\ cart'.rom = rom)]_vars

\* an image with the reference logo was rejected for a checksum off by one
C16_RejectedForChecksum ==
    /\ last.op = "cart_power_up" /\ panicked /\ cart.kind = "none"
    /\ last.r.logo = SubSeq(NintendoLogo, 1, LogoLen)
    /\ last.r.type = 3 /\ last.r.ram_size = 2
    /\ last.r.sum = (256 * Len(Header(last.r)) - ByteSum(Header(last.r))
                       - Len(Header(last.r)) + 1) % 256

\* C18: with the auto-increment flag set, every write to BGPD (0xFF69) moves the
\* 6-bit index to the next one modulo 0x40, and the bytes of a sequence written
\* from index 0 are read back unchanged at the indices they were written to.
C18_PaletteRoundTrip ==
    /\ (last.op = "pal_write" /\ last.a = 65385 /\ dev.bgpi.auto_inc)
       => dev.bgpi.i = (last.r + 1) % 64
    /\ dev.bgpd_log # "none"
       => /\ dev.bgpi.i = Len(dev.bgpd_log) % 64
          /\ \A k \in 1 .. Len(dev.bgpd_log) :
               PaletteGet(dev.bgpd, k - 1) = dev.bgpd_log[k]

\* C19: the input poll requests the joypad interrupt (IF bit 4) exactly when some
\* button goes from released to pressed; a key-down for a button already held and
\* a key-up request nothing.
C19_JoypadIntOnPressedEdge ==
    [][last'.op = "poll"
        => LET edge == \E i \in 1 .. Len(KeyMaps) :
                          /\ And8(dev.pressed_key, KeyMaps[i][1]) # 0
                          /\ And8(dev.signals, KeyMaps[i][2]) # 0
           IN  /\ (last'.r.raised > 0) <=> edge
               /\ Bit(intf', 4) = IF edge THEN 1 ELSE Bit(intf, 4)]_vars

\* C20: after v is written to 0xFF00 a read returns bits 4-5 of v and, in the low
\* nibble, the directional half of the button state when bit 4 of v is 0 and the
\* action half when bit 5 is 0, whatever the low nibble of v.
C20_JoypadReadsSelectedHalf ==
    (last.op = "joy_write" /\ last.a = 65280)
    => LET g == DevGet(dev, 65280)
       IN  /\ And8(g, 48) = And8(last.v, 48)
           /\ Bit(last.v, 4) = 0 => g % 16 = dev.signals % 16
           /\ (Bit(last.v, 4) = 1 /\ Bit(last.v, 5) = 0) => g % 16 = dev.signals \div 16

\* C28: in every reachable state, after any writes to 0xFF51..0xFF55 and any
\* number of general or H-blank block transfers, the destination address of the
\* VRAM DMA lies in video RAM, 0x8000..0x9FFF.
C28_DmaDstInVram == dma.dst \in 32768 .. 40959

\* C29: with the LCD enabled and LY < 144, after any PPU step the STAT mode is
\* determined by the dot counter within the line: mode 2 (OAM search) for dots
\* 0..79, mode 3 (transfer) for dots 80..251, mode 0 (H-blank) for dots 252..455.
C29_ModeFollowsDots ==
    (last.op = "gpu_next" /\ LcdEnable(gpu) /\ gpu.ly < 144)
    => gpu.mode = IF gpu.dots <= 79 THEN "SearchOAM"
                  ELSE IF gpu.dots <= 251 THEN "Tran2Driver"
                  ELSE "HBlank"

\* C27: writing LCDC with bit 7 clear resets the PPU (dots = 0, LY = 0, mode 0,
\* framebuffer cleared, vblank_arrived set), and while bit 7 stays clear a PPU
\* step leaves dots, LY, the mode, the framebuffer and the interrupt-request
\* register unchanged.
C27_LcdOffResetsAndFreezes ==
    [][/\ (last'.op = "gpu_set" /\ last'.a = 65344 /\ Bit(last'.v, 7) = 0)
          => /\ gpu'.dots = 0
             /\ gpu'.ly = 0
             /\ gpu'.mode = "HBlank"
             /\ gpu'.data = {}
             /\ gpu'.v_blank
       /\ (last'.op = "gpu_next" /\ ~LcdEnable(gpu))
          => /\ gpu'.dots = gpu.dots
             /\ gpu'.ly = gpu.ly
             /\ gpu'.mode = gpu.mode
             /\ gpu'.data = gpu.data
             /\ intf' = intf]_vars

\* the LCD was switched off after the PPU had drawn a frame and requested the
\* v-blank interrupt, and the PPU has been stepped since
C27_SteppedWhileOff ==
    /\ last.op = "gpu_next"
    /\ ~LcdEnable(gpu)
    /\ Bit(intf, 0) = 1
    /\ gpu.data = {}
    /\ gpu.dots = 0
    /\ gpu.v_blank

\* C22: after HALT, while no interrupt is both requested and enabled, every CPU
\* step reports 4 ticks and changes no register, PC, SP or memory; at the first
\* step where IF AND IE is non-zero the halted flag is cleared whether or not
\* IME is set: with IME set the interrupt is serviced, and with IME clear the
\* step executes the instruction that follows HALT without servicing the
\* interrupt (the CPU is halted after it only if that instruction is HALT).
C22_HaltIdlesUntilPending ==
    [][(cpu.halted /\ last'.op \in CpuKinds)
       => IF And8(intf, inte) = 0
          THEN /\ last'.op = "halt"
               /\ last'.c = 4
               /\ cpu' = cpu
               /\ hram' = hram
               /\ intf' = intf
               /\ inte' = inte
          ELSE IF cpu.ei
          THEN /\ last'.op = "int"
               /\ ~cpu'.halted
          ELSE /\ last'.op = "ex"
               /\ cpu'.halted = (last'.a = 118)
               /\ cpu'.sp >= cpu.sp
               /\ (last'.a # 224 => intf' = intf)]_vars

\* a halted CPU with IME clear was woken by a pending interrupt and went on with
\* the instruction after HALT, the request still pending
C22_WokenWithoutService ==
    /\ last.op = "ex"
    /\ last.r.halted
    /\ ~cpu.halted
    /\ ~cpu.ei
    /\ And8(intf, inte) # 0

\* C23: for every conditional JP, JR, CALL and RET (conditions NZ, Z, NC, C) and
\* every flag state, the step reports the opcode's table cost plus the branch
\* penalty when the branch is taken, and control transfers to the target; it
\* reports the table cost alone when the branch is not taken, and control falls
\* through to the next instruction.
C23_BranchTicks ==
    [][(last'.op = "ex"
        /\ last'.a \in JpIfOpcodes \cup JrIfOpcodes \cup CallIfOpcodes \cup RetIfOpcodes)
       => LET op      == last'.a
              cc      == (op \div 8) % 4
              taken   == CASE cc = 0 -> Bit(cpu.f, 7) = 0
                           [] cc = 1 -> Bit(cpu.f, 7) = 1
                           [] cc = 2 -> Bit(cpu.f, 4) = 0
                           [] cc = 3 -> Bit(cpu.f, 4) = 1
              penalty == IF op \in JpIfOpcodes \cup JrIfOpcodes THEN 1 ELSE 3
              len     == IF op \in RetIfOpcodes THEN 1
                         ELSE IF op \in JrIfOpcodes THEN 2 ELSE 3
              targets == IF op \in RetIfOpcodes THEN {MemGetWord(World, cpu.sp)}
                         ELSE IF op \in JrIfOpcodes
                         THEN {cpu.pc + 2 + (IF n >= 128 THEN n - 256 ELSE n) : n \in Imm8}
                         ELSE Imm16
          IN  /\ last'.c = 4 * (OpCycles(op) + IF taken THEN penalty ELSE 0)
              /\ cpu'.pc \in IF taken THEN targets ELSE {cpu.pc + len}]_vars

\* C30: executing STOP (0x10) at address p consumes its padding byte: after the
\* step PC = p + 2, and no other register, flag or memory byte has changed.
C30_StopSkipsPadding ==
    [][(last'.op = "ex" /\ last'.a = 16)
       => /\ cpu' = [cpu EXCEPT !.pc = cpu.pc + 2]
          /\ hram' = hram
          /\ intf' = intf
          /\ inte' = inte]_vars

\* the number a byte of two decimal digits stands for, and the byte for a number
FromBcd(x) == 10 * (x \div 16) + (x % 16)

ToBcd(n) == 16 * ((n \div 10) % 10) + (n % 10)

C25_QueueWithinOneSecond == apu.buffer <= SampleRate

\* C26: while NR52 bit 7 is clear, a write to an audio address other than NR52
\* leaves the whole audio unit unchanged; a write to NR52 that clears bit 7
\* zeroes the registers of the four channels and leaves the wave table as it was.
C26_PowerGatesWrites ==
    [][(last'.op = "apu_write" /\ apu.present) =>
         /\ (Bit(apu.nr[65318], 7) = 0 /\ last'.a # 65318) => apu' = apu
         /\ (last'.a = 65318 /\ Bit(last'.v, 7) = 0) =>
              /\ \A a \in 65296 .. 65315 : apu'.nr[a] = 0
              /\ apu'.wave_table = apu.wave_table]_vars

\* the unit was switched off after NR11 and the wave table had been written
C26_SwitchedOffAfterUse ==
    /\ last.op = "apu_write" /\ last.a = 65318 /\ last.v = 0
    /\ apu.present
    /\ apu.lc[1] = 63
    /\ apu.wave_table[65328] = 171
    /\ \A a \in ApuRegs : apu.nr[a] = 0

\* C21: during a run none of these aborts the engine or changes any state: a
\* write to cartridge RAM (0xA000..0xBFFF) while that RAM is disabled or absent,
\* for every mapper kind including plain ROM; a read of an unmapped I/O address;
\* a write to 0xFEA0..0xFEFF; a write to 0xFF10..0xFF3F (NR52, the power
\* register itself, aside) while the audio unit is absent or powered off.
C21_IgnoredAccesses ==
    [][(\/ /\ last'.op = "cart_write"
           /\ last'.a \in 40960 .. 49151
           /\ (cart.kind = "RomOnly" \/ ~cart.ram_enable)
        \/ last'.op \in {"bus_read", "unused_write"}
        \/ /\ last'.op = "apu_write"
           /\ last'.a # 65318
           /\ (~apu.present \/ Bit(apu.nr[65318], 7) = 0))
       => /\ ~panicked'
          /\ UNCHANGED <<apu, cpu, hram, intf, inte, timer, gpu, dma, speed, emu, win, dev,
                         cart>>]_vars

\* C31: an H-blank DMA started with length field n and not cancelled copies
\* exactly n + 1 blocks over successive H-blanks and then becomes inactive, after
\* which 0xFF55 reads 0xFF and no further block is copied: the advance that
\* copies the block at which the count of remaining blocks is 0 (the last of the
\* n + 1) leaves the transfer inactive and 0xFF55 reading 0xFF.
C31_HdmaEndsAfterLastBlock ==
    [][(/\ last'.op \in {"idle", "write", "stop"}
        /\ HdmaActive(dma)
        /\ dma.remain = 0
        /\ Len(last'.r.copied) = 1
        /\ ~panicked')
       => /\ ~dma'.active
          /\ DmaGet(dma', 65365) = 255]_vars

\* C32: every CPU step reports at least 4 master-clock ticks, whatever opcode is
\* at PC (HALT, STOP and the undefined opcodes included), so emulated time
\* advances on every iteration of the run loop.
C32_StepTakesTime == last.op \in CpuKinds => last.c >= 4

\* C33: for an MBC3 cartridge the RTC registers are re-sampled from the host
\* clock only by the latch sequence, a write of 0 followed by a write of 1 to
\* 0x6000..0x7FFF: a write of 1 that is not immediately preceded by a write of 0
\* to that port leaves the latched RTC registers unchanged.
C33_LatchNeedsZeroThenOne ==
    [][(/\ cart.kind = "Mbc3"
        /\ last'.op = "cart_write"
        /\ last'.a \in 24576 .. 32767
        /\ last'.v = 1
        /\ cart.latch # 0)
       => cart'.rtc = cart.rtc]_vars

\* C34: the frame sequencer cycles through the steps 0..7, and in every 8
\* consecutive sequencer steps the length counters of all four channels are
\* clocked on exactly the steps 0, 2, 4 and 6: a running counter with length
\* enabled goes down by one on these steps and keeps its value on the others.
C34_LengthOnEvenSteps ==
    [][last'.op = "mix"
       => /\ apu'.fs = (apu.fs + 1) % 8
          /\ \A ch \in 1 .. 4 :
               apu'.lc[ch] =
                   IF /\ apu'.fs \in {0, 2, 4, 6}
                      /\ Bit(apu.nr[65300 + 5 * (ch - 1)], 6) = 1
                      /\ apu.lc[ch] > 0
                   THEN apu.lc[ch] - 1
                   ELSE apu.lc[ch]]_vars

\* C35: at most one emulation loop runs per emulator instance: for every
\* interleaving of concurrent run requests, a request made while a loop is
\* starting or running returns without starting a second loop.
C35_OneLoopPerEmulator == ~(emu.pc \in LoopPcs /\ emu.pc2 = "loop")

\* C36: in every reachable PPU state LY <= 153 and the dot counter <= 455, and
\* with the LCD enabled, after any step of at least one cycle the STAT mode is 1
\* (V-blank) exactly when LY >= 144.
C36_LineDotsAndVBlank ==
    /\ gpu.ly <= 153
    /\ gpu.dots <= 455
    /\ (last.op = "gpu_next" /\ LcdEnable(gpu))
           => (gpu.mode = "VBlank" <=> gpu.ly >= 144)

\* the PPU has stepped out of the last line of V-blank into line 0 of the next
\* frame, the LCD enabled and every line of the frame before drawn
C36_WrappedToLineZero ==
    /\ last.op = "gpu_next"
    /\ LcdEnable(gpu)
    /\ gpu.ly = 0
    /\ gpu.mode # "VBlank"
    /\ 143 \in gpu.data

\* C37: for every pixel x of a scanline the tile-map coordinate is chosen per
\* pixel: a pixel inside the window (window enabled, LY >= WY, x >= WX - 7) uses
\* (x - (WX - 7), LY - WY) in the window's map, and every other pixel, also on
\* lines where the window is visible further right, uses ((SCX + x) mod 256,
\* (SCY + LY) mod 256) in the background's map.  Stated for WX >= 7, where
\* WX - 7 is a column of the line.
C37_CoordinatePerPixel ==
    (last.op = "tile" /\ gpu.wx >= 7)
        => LET sx == last.a
               in_win == Bit(gpu.lcdc, 5) = 1 /\ gpu.ly >= gpu.wy /\ sx >= gpu.wx - 7
               x == IF in_win THEN sx - (gpu.wx - 7) ELSE (gpu.scx + sx) % 256
               y == IF in_win THEN gpu.ly - gpu.wy ELSE (gpu.scy + gpu.ly) % 256
               sel == IF in_win THEN Bit(gpu.lcdc, 6) ELSE Bit(gpu.lcdc, 3)
               base == IF sel = 1 THEN 39936 ELSE 38912
           IN  last.r = <<x % 8, y % 8, base + (y \div 8) * 32 + x \div 8>>

\* C40: for every ascending-sorted list of sprite x positions and every value v,
\* bs_insert_at terminates and returns an index i in 0..len such that inserting
\* v at i keeps the list ascending-sorted; hence the list built by inserting x
\* values one by one at the returned indices is sorted.
C40_InsertKeepsSorted ==
    /\ \A i \in 1 .. Len(gpu.has_draw) - 1 : gpu.has_draw[i] <= gpu.has_draw[i + 1]
    /\ last.op = "insert"
           => /\ last.v \in 0 .. Len(last.r)
              /\ gpu.has_draw = VecInsert(last.r, last.v, last.a)
              /\ ~panicked

\* a value has been placed by the binary search strictly inside a list of four
\* sprites or more, between a smaller and a larger neighbour
C40_InsertedInTheMiddle ==
    /\ last.op = "insert"
    /\ Len(last.r) >= 4
    /\ last.v \in 2 .. Len(last.r) - 2
    /\ gpu.has_draw[last.v] < last.a
    /\ last.a < gpu.has_draw[last.v + 2]

\* C38: each step of the noise channel's LFSR maps the state s to s >> 1 with
\* bit 14 (and, in width mode, also bit 6) set to bit0(s) XOR bit1(s), and from
\* the seed 1 loaded on a trigger the state stays below 0x8000 after any number
\* of steps.  A frame whose length is the channel's period steps the LFSR once.
C38_LfsrFifteenBits ==
    /\ [](apu.present => apu.noise.seed < 32768)
    /\ [][(/\ last'.op = "mix"
           /\ ~panicked'
           /\ apu.noise.period = FramePeriod
           /\ Bit(apu.nr[65315], 7) = 1
           /\ apu.noise.volume # 0)
          => LET s == apu.noise.seed
                 x == ((s % 2) + ((s \div 2) % 2)) % 2
                 hi == s \div 2 - ((s \div 32768) % 2) * 16384 + x * 16384
                 lo == hi - ((hi \div 64) % 2) * 64 + x * 64
             IN  apu'.noise.seed = IF Bit(apu.nr[65314], 3) = 1 THEN lo ELSE hi]_vars

\* C39: for every value of NR43 the period of the noise channel's timer is
\* divisor[code] << shift with divisor[0] = 8 and divisor[n] = (n + 1) * 16 for
\* n in 1..7, so the period is at least 8 and stepping the timer is defined
\* (no frame of APU::next aborts) for every register value.
C39_NoisePeriodAtLeastEight ==
    /\ last.op = "mix" => ~panicked
    /\ (last.op = "noise_write" /\ last.a = 65314 /\ Bit(apu.nr[65318], 7) = 1)
           => LET code == last.v % 8
                  d == IF code = 0 THEN 8 ELSE (code + 1) * 16
              IN  /\ apu.noise.period = d * 2 ^ (last.v \div 16)
                  /\ apu.noise.period >= 8
====
